---- MODULE Spec2Model ----
(***************************************************************************)
(* Arisa daemon: the delivery pipeline between Daemon and Core             *)
(* (daemon/bridge, in its queue-and-drain and its fallback version), the   *)
(* Core process supervisor with its stderr capture (daemon/lifecycle) and  *)
(* the rate-limited automatic repair (daemon/autofix).                     *)
(*                                                                         *)
(* Time is the value of Date.now() in milliseconds.  Timers (setInterval,  *)
(* setTimeout) fire exactly when they are due: the clock does not pass a   *)
(* due timer.  Every await is a point where other callbacks may run, so    *)
(* every handler is split into one action per synchronous stretch.         *)
(***************************************************************************)
EXTENDS Integers, Sequences, FiniteSets

\* ---------------------------------------------------------------- bounds
\* Number of sendToCore calls of a run.
MaxMsgs == 2
\* POSTs of queued entries that Core holds unanswered at once; a POST made
\* beyond that is refused by Core at once.
MaxInFlight == 2
\* The clock stops after this many retry intervals.
MaxTicks == 34
\* sendToCore is called, and Core answers a first POST, in the first
\* MaxSendSteps clock steps; a first POST not answered by then never is.
MaxSendSteps == 5
\* Number of sendToCore calls of a run of a fallback deployment (its calls
\* share no state).
MaxFallbackCalls == 1
\* The clock of a fallback deployment stops after this many clock steps.
MaxFallbackSteps == 8
\* Core processes spawned in a run of the supervisor.
MaxSpawns == 7
\* Calls of startCore() made by the daemon itself (not by a restart timer)
\* while the supervisor is not stopped.
MaxStartCalls == 2
\* Core processes spawned in a run that follows their stderr.
MaxDiagSpawns == 2
\* Blocks of stderr output written in a run, by all processes together.
MaxStderrBlocks == 4
\* Longest chunk a read of the stderr stream returns, in blocks.
MaxChunk == 3
\* The clock of a run that follows stderr stops after this many steps.
MaxDiagSteps == 2
\* Calls of attemptAutoFix in a run.
MaxTriggers == 4
\* Calls of attemptAutoFix in a run in which they are made one at a time.
MaxSerialCalls == 5
\* Calls of attemptAutoFix in a run in which notifications, spawns and
\* reads may fail.
MaxFullCalls == 1
\* Calls of attemptAutoFix that are in progress at once.
MaxOverlap == 2
\* The clock of a run of autofix stops after this many steps.
MaxAutofixSteps == 3
\* The clock of a supervisor run stops after this many clock steps.
MaxSupervisorSteps == 5
\* Calls of fallbackClaude in a run.
MaxCliCalls == 1
\* Characters the claude CLI writes to stdout in one call.
MaxCliOutput == 2
\* Clock steps while fallbackClaude calls are followed.
MaxCliSteps == 3
\* Calls of isCoreHealthy in a run.
MaxProbes == 1
\* The clock of a run with calls of isCoreHealthy stops after this many
\* clock steps.
MaxHealthSteps == 3
\* Messages that arrive from the chat in a run of the daemon.
MaxHandled == 1
\* Chunks and files of one response.
MaxRelay == 1
\* Runs of codex login started in a run.
MaxLoginRuns == 3
\* Calls of maybeStartCodexDeviceAuth in a run.
MaxLoginTriggers == 5
\* The clock of a run of codex device auth stops after this many steps.
MaxLoginSteps == 6
\* Calls of processWithClaude in a run.
MaxProcCalls == 5

\* ------------------------------------------------------ program constants
RETRY_INTERVAL == 2000
MAX_RETRY_TIME == 60000
RETRY_DELAY == 3000
CRASH_WINDOW == 10000
CRASH_LOOP_THRESHOLD == 5
RESTART_DELAY == 2000
STDERR_MAX == 2000
COOLDOWN_MS == 120000
MAX_ATTEMPTS == 3
AUTOFIX_TIMEOUT == 180000

\* The clock advances in steps of half a retry interval, so that messages
\* are also enqueued between two ticks.
TimeStep == RETRY_INTERVAL \div 2
\* Date.now() when the daemon starts: long after the epoch, which is the
\* initial value of lastCrashAt.
StartTime == CRASH_WINDOW
SendUntil == StartTime + MaxSendSteps * TimeStep

Msgs == 1..MaxMsgs
\* rejectedAge of a caller that was not rejected.
NoAge == 0 - 1
NoProcess == 0
Pids == 1..MaxSpawns
Calls == 1..MaxSerialCalls

\* The calls of fallbackClaude that are followed.
CliCalls == 1..MaxCliCalls

\* The calls of isCoreHealthy that are followed.
Probes == 1..MaxProbes

\* The calls of processWithClaude that are followed.
ProcCalls == 1..MaxProcCalls
\* stderr text is followed in blocks of BlockSize characters: every chunk
\* read from the stream is a whole number of blocks.
BlockSize == STDERR_MAX \div 2

VARIABLES
  policy,       \* which version of daemon/bridge is deployed
  now,          \* Date.now()
  pc,           \* per sendToCore call: where the call is
  queue,        \* bridge.ts: queue (entries: message, enqueuedAt)
  retryTimer,   \* bridge.ts: retryTimer # null
  intervals,    \* number of interval timers set and not cleared
  nextTickAt,   \* when the setInterval callback runs next
  inflight,     \* per message: retry callbacks awaiting its POST
  delivered,    \* per message: POSTs of it that Core answered 2xx
  resolveLog,   \* callers resolved with a Core response, in order
  rejectedAge,  \* per message: now - enqueuedAt when it was rejected
  enqueued,     \* the messages that were pushed on the queue
  sendPosts,    \* per call: POSTs made by sendToCore itself
  result,       \* per call: what the caller's promise settled with
  hasStatus,    \* per call: an onStatus callback was passed
  statusCalls,  \* per call: calls of onStatus
  cliCalls,     \* per call: calls of fallbackClaude
  wakeAt,       \* per call: when its sleep(RETRY_DELAY) ends
  lastError,    \* lifecycle.ts: lastError, what getCoreError() returns
                \* (<<>>: null)
  coreProcess,  \* lifecycle.ts: coreProcess (NoProcess: null)
  shouldRun,    \* lifecycle.ts: shouldRun
  crashCount,   \* lifecycle.ts: crashCount
  lastCrashAt,  \* lifecycle.ts: lastCrashAt
  alive,        \* the spawned Core processes that have not exited
  killed,       \* the processes stopCore has sent a kill to
  spawned,      \* number of processes spawned so far
  restartTimers,\* pending setTimeout(() => startCore(), 2000): due times
  crashWarnings,\* number of crash-loop warnings logged
  spawnErrors,  \* number of startCore calls that raised a spawn error
  startCalls,   \* number of startCore() calls made by the daemon itself
                \* that found shouldRun true
  stoppedStarts,\* who called startCore() while stopped: "call", "timer"
  exitLog,      \* the times of the exits seen by onExit, in order
  lastExited,   \* the process whose exit onExit saw last
  stderrBuf,    \* per process: stderrBuf of its reader (lifecycle.ts:74)
  stream,       \* per process: everything it wrote to stderr
  reading,      \* the processes whose stderr reader has not finished
  attemptCount, \* autofix.ts: attemptCount
  lastAttemptAt,\* autofix.ts: lastAttemptAt
  notifyFn,     \* autofix.ts: notifyFn # null
  fixPc,        \* per attemptAutoFix call: where the call is
  fixResult,    \* per call: what its promise settled with
  hasOutput,    \* per call: output.trim().length > 0
  fixKilled,    \* per call: the timeout has killed its claude process
  exitCode,     \* per call in progress: exitCode of its claude process is 0
                \* ("zero") or not ("nonzero"); "none": no exit yet
  killAt,       \* per call: when its kill timer is due (0: no timer)
  notes,        \* per call in progress: the notifications it has sent
  spawnLog,     \* the times at which a claude process was spawned
  cliPc,        \* per fallbackClaude call: where the call is
  cliOutput,    \* per call: what its claude process wrote to stdout
  cliExit,      \* per call: exitCode of its process is 0 ("zero") or not
                \* ("nonzero"); "none": no exit seen
  cliKilled,    \* per call: the timeout has killed its process
  cliKillAt,    \* per call: when its kill timer is due (0: no timer)
  cliSpawnedAt, \* per call: when its process was spawned (0: not spawned)
  cliResult,    \* per call: the string it returned (<<>>: none yet)
  healthPc,     \* per isCoreHealthy call: where the call is
  healthDueAt,  \* per call: when the timeout of its GET is due (0: none)
  healthOutcome,\* per call: how its GET ended ("none": not yet)
  healthResult, \* per call: the boolean it returned
  handlerPc,    \* per message: where the daemon's onMessage handler is
  handlerLeft,  \* per message: chunks and files still to be relayed
  handlerLog,   \* per message: what the handler's catch blocks saw and sent
  loginInProgress,    \* codex-login.ts: loginInProgress
  lastLoginAttemptAt, \* codex-login.ts: lastLoginAttemptAt
  loginRunning, \* number of codex login processes that are running
  loginEnded,   \* number of ended runs whose finally callback is to run
  loginStarts,  \* the times at which runCodexDeviceAuth was started
  loginTriggers,\* number of maybeStartCodexDeviceAuth calls so far
  claudeQueue,  \* core/processor: queue (the calls waiting, by number)
  processing,   \* core/processor: processing
  running,      \* the calls whose runClaude invocation is in flight
  runOrder,     \* the calls in the order their runClaude was invoked
  procCalls,    \* number of processWithClaude calls made
  procResult,   \* per call: what its promise was resolved with
  agPc,         \* runWithCliFallback: where the call is
  agAvail,      \* the CLIs whose path was found when it was called
  candidates,   \* runWithCliFallback: the candidates not yet tried
  attempted,    \* runWithCliFallback: attempted
  failures,     \* runWithCliFallback: failures
  partial,      \* runWithCliFallback: partial (<<>> for null)
  agResult,     \* the result field of what it returned (<<>> for null)
  agLog,        \* what each CLI that was run did
  waitingAtSend \* per message: the messages that were in the delivery
                \* queue when sendToCore was called with it

pipeVars == <<policy, now, pc, queue, retryTimer, intervals, nextTickAt,
              inflight,
              delivered, resolveLog, rejectedAge, enqueued, sendPosts, result,
              hasStatus, statusCalls, cliCalls, wakeAt>>

\* The stderr reader of each process.
errVars == <<stderrBuf, stream, reading>>

supVars == <<coreProcess, shouldRun, crashCount, lastCrashAt, alive, killed,
             spawned, restartTimers, crashWarnings, spawnErrors, startCalls,
             stoppedStarts, exitLog, lastExited, errVars>>

\* daemon/autofix
afVars == <<attemptCount, lastAttemptAt, notifyFn, fixPc, fixResult,
            hasOutput, fixKilled, exitCode, killAt, notes, spawnLog>>

\* daemon/fallback
cliVars == <<cliPc, cliOutput, cliExit, cliKilled, cliKillAt, cliSpawnedAt,
             cliResult>>

\* isCoreHealthy
healthVars == <<healthPc, healthDueAt, healthOutcome, healthResult>>

\* daemon/index: the onMessage handler
handlerVars == <<handlerPc, handlerLeft, handlerLog>>

\* What the delivery pipeline, the supervisor and autofix never touch.
\* daemon/codex-login: device auth
loginVars == <<loginInProgress, lastLoginAttemptAt, loginRunning, loginEnded,
               loginStarts, loginTriggers>>

\* core/processor
procVars == <<claudeQueue, processing, running, runOrder, procCalls,
              procResult>>

\* daemon/agent-cli
agentVars == <<agPc, agAvail, candidates, attempted, failures, partial,
               agResult, agLog>>

\* What no component but the delivery queue touches.
exceptSent == <<cliVars, healthVars, handlerVars, loginVars, procVars,
                agentVars>>

daemonVars == <<exceptSent, waitingAtSend>>

vars == <<pipeVars, lastError, supVars, afVars, daemonVars>>

\* What fallbackClaude, isCoreHealthy and the handler never touch.
exceptCli == <<pipeVars, lastError, supVars, afVars, healthVars, handlerVars,
               loginVars, procVars, agentVars, waitingAtSend>>
exceptHealth == <<pipeVars, lastError, supVars, afVars, cliVars, handlerVars,
                  loginVars, procVars, agentVars, waitingAtSend>>
exceptHandler == <<pipeVars, lastError, supVars, afVars, cliVars, healthVars,
                   loginVars, procVars, agentVars, waitingAtSend>>
exceptProc == <<pipeVars, lastError, supVars, afVars, cliVars, healthVars,
                handlerVars, loginVars, agentVars, waitingAtSend>>
exceptLogin == <<pipeVars, lastError, supVars, afVars, cliVars, healthVars,
                 handlerVars, procVars, agentVars, waitingAtSend>>
exceptAgent == <<pipeVars, lastError, supVars, afVars, cliVars, healthVars,
                 handlerVars, loginVars, procVars, waitingAtSend>>

\* What the queue-and-drain version never touches.
fbVars == <<hasStatus, statusCalls, cliCalls, wakeAt, lastError, supVars,
           afVars>>
\* What the fallback version never touches.
qVars == <<queue, retryTimer, intervals, nextTickAt, inflight, resolveLog,
           rejectedAge,
           enqueued>>

Pending == {"post1", "queued", "unanswered"}
Settled == {"resolved", "rejected"}

\* ------------------------------------------------------------- helpers
QueuedMsgs(q) == {q[i].msg : i \in 1..Len(q)}

RECURSIVE SumOver(_, _)
SumOver(f, S) ==
  IF S = {} THEN 0
  ELSE LET x == CHOOSE y \in S : TRUE IN f[x] + SumOver(f, S \ {x})

InFlightTotal == SumOver(inflight, Msgs)

\* Mutant of IsExpired: the comparison made inclusive.
IsExpiredAtLimit(entry, t) == t - entry.enqueuedAt >= MAX_RETRY_TIME

\* bridge.ts:71  now - queue[0].enqueuedAt > MAX_RETRY_TIME
IsExpired(entry, t) == t - entry.enqueuedAt > MAX_RETRY_TIME

\* Mutant of DropExpired: an expired head takes the whole queue with it.
DropExpiredFlush(q, t) ==
  IF q # <<>> /\ IsExpired(Head(q), t) THEN <<>> ELSE q

\* Mutant of DropExpired: an if in place of the while, one entry per tick.
DropExpiredOnce(q, t) ==
  IF q # <<>> /\ IsExpired(Head(q), t) THEN Tail(q) ELSE q

\* bridge.ts:71-75  the expiry loop: what is left of the queue
RECURSIVE DropExpired(_, _)
DropExpired(q, t) ==
  IF q # <<>> /\ IsExpired(Head(q), t) THEN DropExpired(Tail(q), t) ELSE q

\* Promise settlement: resolve/reject of a settled promise does nothing.
Settle(p, m, how) == IF p[m] \in Settled THEN p ELSE [p EXCEPT ![m] = how]

\* ----------------------------------------------------------------- Init
Init ==
  /\ policy \in {"queue", "fallback"}
  /\ now = StartTime
  /\ pc = [m \in Msgs |-> "idle"]
  /\ queue = <<>>
  /\ retryTimer = FALSE
  /\ intervals = 0
  /\ nextTickAt = 0
  /\ inflight = [m \in Msgs |-> 0]
  /\ delivered = [m \in Msgs |-> 0]
  /\ resolveLog = <<>>
  /\ rejectedAge = [m \in Msgs |-> NoAge]
  /\ enqueued = {}
  /\ sendPosts = [m \in Msgs |-> 0]
  /\ result = [m \in Msgs |-> "none"]
  /\ hasStatus = [m \in Msgs |-> FALSE]
  /\ statusCalls = [m \in Msgs |-> 0]
  /\ cliCalls = [m \in Msgs |-> 0]
  /\ wakeAt = [m \in Msgs |-> 0]
  /\ lastError = <<>>
  /\ coreProcess = NoProcess
  /\ shouldRun = TRUE
  /\ crashCount = 0
  /\ lastCrashAt = 0
  /\ alive = {}
  /\ killed = {}
  /\ spawned = 0
  /\ restartTimers = {}
  /\ crashWarnings = 0
  /\ spawnErrors = 0
  /\ startCalls = 0
  /\ stoppedStarts = {}
  /\ exitLog = <<>>
  /\ lastExited = NoProcess
  /\ stderrBuf = [p \in Pids |-> <<>>]
  /\ stream = [p \in Pids |-> <<>>]
  /\ reading = {}
  /\ attemptCount = 0
  /\ lastAttemptAt = 0
  /\ notifyFn = FALSE
  /\ fixPc = [c \in Calls |-> "idle"]
  /\ fixResult = [c \in Calls |-> "none"]
  /\ hasOutput = [c \in Calls |-> FALSE]
  /\ fixKilled = [c \in Calls |-> FALSE]
  /\ exitCode = [c \in Calls |-> "none"]
  /\ killAt = [c \in Calls |-> 0]
  /\ notes = [c \in Calls |-> <<>>]
  /\ spawnLog = <<>>
  /\ cliPc = [c \in CliCalls |-> "idle"]
  /\ cliOutput = [c \in CliCalls |-> <<>>]
  /\ cliExit = [c \in CliCalls |-> "none"]
  /\ cliKilled = [c \in CliCalls |-> FALSE]
  /\ cliKillAt = [c \in CliCalls |-> 0]
  /\ cliSpawnedAt = [c \in CliCalls |-> 0]
  /\ cliResult = [c \in CliCalls |-> <<>>]
  /\ healthPc = [h \in Probes |-> "idle"]
  /\ healthDueAt = [h \in Probes |-> 0]
  /\ healthOutcome = [h \in Probes |-> "none"]
  /\ healthResult = [h \in Probes |-> FALSE]
  /\ handlerPc = [m \in Msgs |-> "sendToCore"]
  /\ handlerLeft = [m \in Msgs |-> 0]
  /\ handlerLog = [m \in Msgs |-> <<>>]
  /\ loginInProgress = FALSE
  /\ lastLoginAttemptAt = 0
  /\ loginRunning = 0
  /\ loginEnded = 0
  /\ loginStarts = <<>>
  /\ loginTriggers = 0
  /\ claudeQueue = <<>>
  /\ processing = FALSE
  /\ running = {}
  /\ runOrder = <<>>
  /\ procCalls = 0
  /\ procResult = [c \in ProcCalls |-> "none"]
  /\ agPc = "idle"
  /\ agAvail = {}
  /\ candidates = <<>>
  /\ attempted = <<>>
  /\ failures = <<>>
  /\ partial = <<>>
  /\ agResult = <<>>
  /\ agLog = <<>>
  /\ waitingAtSend = [m \in Msgs |-> {}]

\* ------------------------------------------- queue-and-drain (bridge.ts)
\* Messages are numbered in the order of their sendToCore calls.
\* bridge.ts:34-36  sendToCore up to its await of the first POST; waiting
\* is what is noted of the delivery queue at the call
SendToCore(m, waiting) ==
  /\ policy = "queue"
  /\ pc[m] = "idle"
  /\ now <= SendUntil
  /\ \A k \in Msgs : k < m => pc[k] # "idle"
  /\ pc' = [pc EXCEPT ![m] = "post1"]
  /\ sendPosts' = [sendPosts EXCEPT ![m] = 1]
  /\ waitingAtSend' = [waitingAtSend EXCEPT ![m] = waiting]
  /\ UNCHANGED <<exceptSent, policy, now, delivered, result, qVars, fbVars>>

\* sendToCore, nothing being noted of the queue
QSend(m) == SendToCore(m, {})

\* sendToCore, the messages waiting in the queue at the call being noted
QSendBehind(m) == SendToCore(m, QueuedMsgs(queue))

\* Mutant of QFirstPostOk: the retry loop is started on success too.
QFirstPostOkStartsLoop(m) ==
  /\ policy = "queue"
  /\ pc[m] = "post1"
  /\ now <= SendUntil
  /\ pc' = [pc EXCEPT ![m] = "resolved"]
  /\ result' = [result EXCEPT ![m] = "core"]
  /\ delivered' = [delivered EXCEPT ![m] = @ + 1]
  /\ resolveLog' = Append(resolveLog, m)
  /\ retryTimer' = TRUE
  /\ intervals' = IF retryTimer THEN intervals ELSE intervals + 1
  /\ nextTickAt' = IF retryTimer THEN nextTickAt ELSE now + RETRY_INTERVAL
  /\ UNCHANGED <<daemonVars, policy, now, sendPosts, queue, inflight,
                 rejectedAge, enqueued, fbVars>>

\* bridge.ts:36  the first POST answered 2xx: return the response
QFirstPostOk(m) ==
  /\ policy = "queue"
  /\ pc[m] = "post1"
  /\ now <= SendUntil
  /\ pc' = [pc EXCEPT ![m] = "resolved"]
  /\ result' = [result EXCEPT ![m] = "core"]
  /\ delivered' = [delivered EXCEPT ![m] = @ + 1]
  /\ resolveLog' = Append(resolveLog, m)
  /\ UNCHANGED <<daemonVars, policy, now, sendPosts, queue, retryTimer,
                 intervals, nextTickAt, inflight, rejectedAge, enqueued,
                 fbVars>>

\* Mutant of StartRetryLoop: the test of retryTimer is left out.
StartRetryLoopUnguarded ==
  /\ retryTimer' = TRUE
  /\ intervals' = intervals + 1
  /\ nextTickAt' = now + RETRY_INTERVAL

\* bridge.ts:60-62  startRetryLoop: one interval timer, set if none is
StartRetryLoop ==
  IF retryTimer
  THEN UNCHANGED <<retryTimer, intervals, nextTickAt>>
  ELSE /\ retryTimer' = TRUE
       /\ intervals' = intervals + 1
       /\ nextTickAt' = now + RETRY_INTERVAL

\* bridge.ts:37-42  the first POST failed: enqueue, start the retry loop
QFirstPostFail(m) ==
  /\ policy = "queue"
  /\ pc[m] = "post1"
  /\ now <= SendUntil
  /\ pc' = [pc EXCEPT ![m] = "queued"]
  /\ queue' = Append(queue, [msg |-> m, enqueuedAt |-> now])
  /\ enqueued' = enqueued \cup {m}
  /\ StartRetryLoop
  /\ UNCHANGED <<daemonVars, policy, now, delivered, sendPosts, result,
                 inflight, resolveLog, rejectedAge, fbVars>>

\* bridge.ts:47-51  fetch without a timeout: Core accepted the request and
\* will never answer it; nothing ends the await.
QCoreNeverAnswers(m) ==
  /\ policy = "queue"
  /\ pc[m] = "post1"
  /\ pc' = [pc EXCEPT ![m] = "unanswered"]
  /\ UNCHANGED <<daemonVars, policy, now, delivered, sendPosts, result, qVars,
                 fbVars>>

\* bridge.ts:72-73  the entries the expiry loop shifts and rejects
Expired(q, t) == QueuedMsgs(q) \ QueuedMsgs(DropExpired(q, t))

EnqueuedAt(q, m) == (CHOOSE e \in {q[i] : i \in 1..Len(q)} : e.msg = m).enqueuedAt

\* Mutant of Tick: a tick that finds the queue empty leaves the timer set.
TickKeepsTimer ==
  /\ policy = "queue"
  /\ retryTimer
  /\ now = nextTickAt
  /\ LET left == DropExpired(queue, now)
         rejected == {m \in Expired(queue, now) : pc[m] \notin Settled}
     IN /\ queue' = left
        /\ pc' = [m \in Msgs |-> IF m \in rejected THEN "rejected" ELSE pc[m]]
        /\ result' = [m \in Msgs |->
                        IF m \in rejected THEN "timeout" ELSE result[m]]
        /\ rejectedAge' = [m \in Msgs |->
                        IF m \in rejected THEN now - EnqueuedAt(queue, m)
                        ELSE rejectedAge[m]]
        /\ IF left = <<>>
           THEN /\ nextTickAt' = now + RETRY_INTERVAL
                /\ UNCHANGED <<retryTimer, intervals, inflight>>
           ELSE /\ retryTimer' = TRUE
                /\ UNCHANGED intervals
                /\ nextTickAt' = now + RETRY_INTERVAL
                /\ IF InFlightTotal < MaxInFlight
                   THEN inflight' = [inflight EXCEPT ![Head(left).msg] = @ + 1]
                   ELSE UNCHANGED inflight
  /\ UNCHANGED <<daemonVars, policy, now, delivered, sendPosts, resolveLog,
                 enqueued, fbVars>>

\* bridge.ts:62-86  the interval callback up to its await of the POST
Tick ==
  /\ policy = "queue"
  /\ retryTimer
  /\ now = nextTickAt
  /\ LET left == DropExpired(queue, now)
         rejected == {m \in Expired(queue, now) : pc[m] \notin Settled}
     IN /\ queue' = left
        /\ pc' = [m \in Msgs |-> IF m \in rejected THEN "rejected" ELSE pc[m]]
        /\ result' = [m \in Msgs |->
                        IF m \in rejected THEN "timeout" ELSE result[m]]
        /\ rejectedAge' = [m \in Msgs |->
                        IF m \in rejected THEN now - EnqueuedAt(queue, m)
                        ELSE rejectedAge[m]]
        /\ IF left = <<>>
           THEN /\ retryTimer' = FALSE
                /\ intervals' = intervals - 1
                /\ nextTickAt' = 0
                /\ UNCHANGED inflight
           ELSE /\ retryTimer' = TRUE
                /\ UNCHANGED intervals
                /\ nextTickAt' = now + RETRY_INTERVAL
                /\ IF InFlightTotal < MaxInFlight
                   THEN inflight' = [inflight EXCEPT ![Head(left).msg] = @ + 1]
                   ELSE UNCHANGED inflight
  /\ UNCHANGED <<daemonVars, policy, now, delivered, sendPosts, resolveLog,
                 enqueued, fbVars>>

\* bridge.ts:86-89  the POST of a retry callback answered 2xx:
\* queue.shift() removes whatever is the head now; item.resolve(response)
TickPostOk(m) ==
  /\ policy = "queue"
  /\ inflight[m] > 0
  /\ inflight' = [inflight EXCEPT ![m] = @ - 1]
  /\ delivered' = [delivered EXCEPT ![m] = @ + 1]
  /\ queue' = IF queue = <<>> THEN queue ELSE Tail(queue)
  /\ pc' = Settle(pc, m, "resolved")
  /\ result' = IF pc[m] \in Settled THEN result
               ELSE [result EXCEPT ![m] = "core"]
  /\ resolveLog' = IF pc[m] \in Settled THEN resolveLog
                   ELSE Append(resolveLog, m)
  /\ UNCHANGED <<daemonVars, policy, now, sendPosts, retryTimer, intervals,
                 nextTickAt, rejectedAge, enqueued, fbVars>>

\* bridge.ts:90-92  the POST of a retry callback failed
TickPostFail(m) ==
  /\ policy = "queue"
  /\ inflight[m] > 0
  /\ inflight' = [inflight EXCEPT ![m] = @ - 1]
  /\ UNCHANGED <<daemonVars, policy, now, pc, delivered, sendPosts, result,
                 queue, retryTimer, intervals, nextTickAt, resolveLog,
                 rejectedAge, enqueued, fbVars>>

\* ------------------------------------ fallback (codex-login.ts:207-301)
\* codex-login.ts:233-239  sendToCore up to its await of the first POST
FSend(m, cb) ==
  /\ policy = "fallback"
  /\ pc[m] = "idle"
  /\ m <= MaxFallbackCalls
  /\ now <= SendUntil
  /\ \A k \in Msgs : k < m => pc[k] # "idle"
  /\ pc' = [pc EXCEPT ![m] = "post1"]
  /\ sendPosts' = [sendPosts EXCEPT ![m] = 1]
  /\ hasStatus' = [hasStatus EXCEPT ![m] = cb]
  /\ UNCHANGED <<daemonVars, policy, now, delivered, result, qVars,
                 statusCalls, cliCalls, wakeAt, lastError, supVars, afVars>>

\* codex-login.ts:239  the first POST answered 2xx: return the response
FFirstPostOk(m) ==
  /\ policy = "fallback"
  /\ pc[m] = "post1"
  /\ pc' = [pc EXCEPT ![m] = "resolved"]
  /\ result' = [result EXCEPT ![m] = "core"]
  /\ delivered' = [delivered EXCEPT ![m] = @ + 1]
  /\ UNCHANGED <<daemonVars, policy, now, sendPosts, qVars, fbVars>>

\* Mutant of Sleep: the delay is left out.
SleepNoDelay(m) ==
  /\ pc' = [pc EXCEPT ![m] = "sleep"]
  /\ wakeAt' = [wakeAt EXCEPT ![m] = now]

\* codex-login.ts:246, 290-292  sleep(RETRY_DELAY)
Sleep(m) ==
  /\ pc' = [pc EXCEPT ![m] = "sleep"]
  /\ wakeAt' = [wakeAt EXCEPT ![m] = now + RETRY_DELAY]

\* codex-login.ts:240-246  the first POST failed (non-2xx, network error or
\* the request timeout): call onStatus if there is one, else sleep
FFirstPostFail(m) ==
  /\ policy = "fallback"
  /\ pc[m] = "post1"
  /\ IF hasStatus[m]
     THEN /\ pc' = [pc EXCEPT ![m] = "status1"]
          /\ statusCalls' = [statusCalls EXCEPT ![m] = @ + 1]
          /\ UNCHANGED wakeAt
     ELSE /\ Sleep(m)
          /\ UNCHANGED statusCalls
  /\ UNCHANGED <<daemonVars, policy, now, delivered, sendPosts, result, qVars,
                 hasStatus, cliCalls, lastError, supVars, afVars>>

\* codex-login.ts:245-246  onStatus("... reintentando") returned
FStatus1Ok(m) ==
  /\ policy = "fallback"
  /\ pc[m] = "status1"
  /\ Sleep(m)
  /\ UNCHANGED <<daemonVars, policy, now, delivered, sendPosts, result, qVars,
                 hasStatus, statusCalls, cliCalls, lastError, supVars,
                 afVars>>

\* codex-login.ts:245, 260, 262  the awaited onStatus rejected: the await is
\* in no try block, so sendToCore rejects with that error
FStatusThrows(m) ==
  /\ policy = "fallback"
  /\ pc[m] \in {"status1", "status2"}
  /\ pc' = [pc EXCEPT ![m] = "rejected"]
  /\ result' = [result EXCEPT ![m] = "status_error"]
  /\ UNCHANGED <<daemonVars, policy, now, delivered, sendPosts, qVars,
                 fbVars>>

\* codex-login.ts:246-250  the sleep ended: the second POST
FWake(m) ==
  /\ policy = "fallback"
  /\ pc[m] = "sleep"
  /\ now >= wakeAt[m]
  /\ pc' = [pc EXCEPT ![m] = "post2"]
  /\ sendPosts' = [sendPosts EXCEPT ![m] = @ + 1]
  /\ UNCHANGED <<daemonVars, policy, now, delivered, result, qVars, fbVars>>

\* codex-login.ts:250  the second POST answered 2xx: return the response
FSecondPostOk(m) ==
  /\ policy = "fallback"
  /\ pc[m] = "post2"
  /\ pc' = [pc EXCEPT ![m] = "resolved"]
  /\ result' = [result EXCEPT ![m] = "core"]
  /\ delivered' = [delivered EXCEPT ![m] = @ + 1]
  /\ UNCHANGED <<daemonVars, policy, now, sendPosts, qVars, fbVars>>

\* codex-login.ts:266  fallbackClaude(text, coreError) is called
CallFallback(m) ==
  /\ pc' = [pc EXCEPT ![m] = "cli"]
  /\ cliCalls' = [cliCalls EXCEPT ![m] = @ + 1]

\* codex-login.ts:251-266  the second POST failed: read getCoreError(), call
\* onStatus if there is one, else call the fallback CLI
FSecondPostFail(m) ==
  /\ policy = "fallback"
  /\ pc[m] = "post2"
  /\ IF hasStatus[m]
     THEN /\ pc' = [pc EXCEPT ![m] = "status2"]
          /\ statusCalls' = [statusCalls EXCEPT ![m] = @ + 1]
          /\ UNCHANGED cliCalls
     ELSE /\ CallFallback(m)
          /\ UNCHANGED statusCalls
  /\ UNCHANGED <<daemonVars, policy, now, delivered, sendPosts, result, qVars,
                 hasStatus, wakeAt, lastError, supVars, afVars>>

\* codex-login.ts:260-266  onStatus("Core sigue caido ...") returned
FStatus2Ok(m) ==
  /\ policy = "fallback"
  /\ pc[m] = "status2"
  /\ CallFallback(m)
  /\ UNCHANGED <<daemonVars, policy, now, delivered, sendPosts, result, qVars,
                 hasStatus, statusCalls, wakeAt, lastError, supVars, afVars>>

\* fallback.ts:24-54  what fallbackClaude returns, by what the CLI did
CliOutcomes == {"spawn_error", "exit_nonzero", "empty_output", "output"}

FallbackClaude(outcome) ==
  CASE outcome = "spawn_error"  -> "cli_unreachable_text"
    [] outcome = "exit_nonzero" -> "cli_failed_text"
    [] outcome = "empty_output" -> "cli_empty_text"
    [] outcome = "output"       -> "cli_output"

CliTexts == {FallbackClaude(o) : o \in CliOutcomes}

\* codex-login.ts:266-268  fallbackClaude returned: return { text }
FCliReturns(m, outcome) ==
  /\ policy = "fallback"
  /\ pc[m] = "cli"
  /\ pc' = [pc EXCEPT ![m] = "resolved"]
  /\ result' = [result EXCEPT ![m] = FallbackClaude(outcome)]
  /\ UNCHANGED <<daemonVars, policy, now, delivered, sendPosts, qVars,
                 fbVars>>

\* ------------------------------------------- supervisor (lifecycle.ts)
\* Mutant of StartCore: the test of shouldRun is left out.
StartCoreWhileStopped(spawnOk, from) ==
  /\ stoppedStarts' = IF shouldRun THEN stoppedStarts
                      ELSE stoppedStarts \cup {from}
  /\ IF spawnOk
     THEN /\ spawned' = spawned + 1
          /\ alive' = alive \cup {spawned + 1}
          /\ coreProcess' = spawned + 1
          /\ stderrBuf' = [stderrBuf EXCEPT ![spawned + 1] = <<>>]
          /\ reading' = reading \cup {spawned + 1}
          /\ UNCHANGED <<spawnErrors, stream>>
     ELSE /\ spawnErrors' = spawnErrors + 1
          /\ UNCHANGED <<coreProcess, alive, spawned, errVars>>

\* lifecycle.ts:36-100  startCore(), called by `from` (the daemon: "call",
\* a restart timer: "timer"): nothing if stopped; else Bun.spawn, which
\* either raises (no process, the handle left as it was, the error leaves
\* startCore) or returns the new process, stored in coreProcess, whose
\* stderr gets a reader with an empty stderrBuf
StartCore(spawnOk, from) ==
  IF ~shouldRun
  THEN /\ stoppedStarts' = stoppedStarts \cup {from}
       /\ UNCHANGED <<coreProcess, alive, spawned, spawnErrors, errVars>>
  ELSE /\ UNCHANGED stoppedStarts
       /\ IF spawnOk
          THEN /\ spawned' = spawned + 1
               /\ alive' = alive \cup {spawned + 1}
               /\ coreProcess' = spawned + 1
               /\ stderrBuf' = [stderrBuf EXCEPT ![spawned + 1] = <<>>]
               /\ reading' = reading \cup {spawned + 1}
               /\ UNCHANGED <<spawnErrors, stream>>
          ELSE /\ spawnErrors' = spawnErrors + 1
               /\ UNCHANGED <<coreProcess, alive, spawned, errVars>>

\* part_000:98 and any other caller: a call of startCore()
StartCoreCall(spawnOk) ==
  /\ shouldRun => (spawned + spawnErrors < MaxSpawns
                    /\ startCalls < MaxStartCalls)
  /\ startCalls' = IF shouldRun THEN startCalls + 1 ELSE startCalls
  /\ StartCore(spawnOk, "call")
  /\ UNCHANGED <<daemonVars, pipeVars, afVars, lastError, shouldRun,
                 crashCount, lastCrashAt, killed, restartTimers,
                 crashWarnings, exitLog, lastExited>>

\* lifecycle.ts:65  a restart timer is due: startCore()
RestartTimerFires(t, spawnOk) ==
  /\ t \in restartTimers
  /\ t.due <= now
  /\ shouldRun => spawned + spawnErrors < MaxSpawns
  /\ restartTimers' = restartTimers \ {t}
  /\ StartCore(spawnOk, "timer")
  /\ UNCHANGED <<daemonVars, pipeVars, afVars, lastError, shouldRun,
                 crashCount, lastCrashAt, killed, crashWarnings, startCalls,
                 exitLog, lastExited>>

\* Mutant of CrashCountAfter: a gap of exactly the window counts as close.
CrashCountAfterInclusive(count, last, t) ==
  IF t - last <= CRASH_WINDOW THEN count + 1 ELSE 1

\* lifecycle.ts:52-56  the crash counter after an exit at time t
CrashCountAfter(count, last, t) ==
  IF t - last < CRASH_WINDOW THEN count + 1 ELSE 1

\* Mutant of CrashLoop: the warning is given at the threshold already.
CrashLoopAtThreshold(count) == count >= CRASH_LOOP_THRESHOLD

\* lifecycle.ts:59  crashCount > 5: the crash-loop warning is logged
CrashLoop(count) == count > CRASH_LOOP_THRESHOLD

\* Mutant of RestartAfterExit: no restart once the crash loop is detected.
RestartUnlessCrashLoop(timers, p, count) ==
  IF shouldRun /\ ~CrashLoop(count)
  THEN timers \cup {[due |-> now + RESTART_DELAY, by |-> p]}
  ELSE timers

\* lifecycle.ts:63-66  the restart timers after the exit of p, crashCount
\* being count
RestartAfterExit(timers, p, count) ==
  IF shouldRun
  THEN timers \cup {[due |-> now + RESTART_DELAY, by |-> p]}
  ELSE timers

\* lifecycle.ts:47-67  onExit of process p
OnExit(p) ==
  /\ p \in alive
  /\ alive' = alive \ {p}
  /\ coreProcess' = NoProcess
  /\ crashCount' = CrashCountAfter(crashCount, lastCrashAt, now)
  /\ lastCrashAt' = now
  /\ crashWarnings' = IF CrashLoop(crashCount')
                      THEN crashWarnings + 1 ELSE crashWarnings
  /\ restartTimers' = RestartAfterExit(restartTimers, p, crashCount')
  /\ exitLog' = Append(exitLog, now)
  /\ lastExited' = p
  /\ UNCHANGED <<daemonVars, pipeVars, afVars, lastError, shouldRun, killed,
                 spawned, spawnErrors, startCalls, stoppedStarts, errVars>>

\* lifecycle.ts:102-109  stopCore()
StopCore ==
  /\ shouldRun' = FALSE
  /\ killed' = IF coreProcess # NoProcess THEN killed \cup {coreProcess}
               ELSE killed
  /\ coreProcess' = NoProcess
  /\ UNCHANGED <<daemonVars, pipeVars, afVars, lastError, crashCount,
                 lastCrashAt, alive, spawned, restartTimers, crashWarnings,
                 spawnErrors, startCalls, stoppedStarts, exitLog, lastExited,
                 errVars>>

\* The supervisor's clock advances by the restart delay.
SupervisorStep == RESTART_DELAY

SupervisorHorizon == StartTime + MaxSupervisorSteps * SupervisorStep

SupervisorAdvanceTime ==
  /\ now + SupervisorStep <= SupervisorHorizon
  /\ \A t \in restartTimers : t.due > now
  /\ now' = now + SupervisorStep
  /\ UNCHANGED <<daemonVars, policy, pc, delivered, sendPosts, result, qVars,
                 fbVars>>

\* The supervisor of Core processes that write nothing to stderr: the end
\* of their stderr stream leaves lastError as it is (lifecycle.ts:93).
NextSupervisor ==
  \/ \E ok \in BOOLEAN : StartCoreCall(ok)
  \/ \E t \in restartTimers, ok \in BOOLEAN : RestartTimerFires(t, ok)
  \/ \E p \in Pids : OnExit(p)
  \/ StopCore
  \/ SupervisorAdvanceTime

\* The supervisor shares no state with the delivery pipeline: it is
\* followed next to an idle pipeline of one deployment.
InitSupervisor == Init /\ policy = "fallback"

SpecSupervisor == InitSupervisor /\ [][NextSupervisor]_vars

\* ------------------------------- stderr capture (lifecycle.ts:70-97)
\* A chunk is text or blank (whitespace only); text begins and ends with a
\* character that is not whitespace.  A block records who wrote it and its
\* position in that process's stream.
Chunk(p, n, blank) ==
  [i \in 1..n |-> [pid |-> p, pos |-> Len(stream[p]) + i, blank |-> blank]]

\* String length, in characters.
Chars(b) == Len(b) * BlockSize

\* String.prototype.slice(-n): the last n characters, all if there are fewer
SliceLast(b, n) ==
  IF Chars(b) <= n THEN b
  ELSE SubSeq(b, Len(b) - (n \div BlockSize) + 1, Len(b))

\* Mutant of AppendChunk: slice(STDERR_MAX) in place of slice(-STDERR_MAX).
AppendChunkDropsHead(buf, chunk) ==
  LET b == buf \o chunk
  IN IF Chars(b) > STDERR_MAX
     THEN SubSeq(b, (STDERR_MAX \div BlockSize) + 1, Len(b))
     ELSE b

\* lifecycle.ts:84-87  stderrBuf += chunk, cut to its last STDERR_MAX
\* characters if it is longer
AppendChunk(buf, chunk) ==
  LET b == buf \o chunk
  IN IF Chars(b) > STDERR_MAX THEN SliceLast(b, STDERR_MAX) ELSE b

RECURSIVE TrimStart(_)
TrimStart(b) == IF b # <<>> /\ Head(b).blank THEN TrimStart(Tail(b)) ELSE b

RECURSIVE TrimEnd(_)
TrimEnd(b) ==
  IF b # <<>> /\ b[Len(b)].blank THEN TrimEnd(SubSeq(b, 1, Len(b) - 1)) ELSE b

\* String.prototype.trim()
Trim(b) == TrimEnd(TrimStart(b))

StderrWritten == SumOver([q \in Pids |-> Len(stream[q])], 1..spawned)

\* lifecycle.ts:79-87  the reader of p gets a chunk of n blocks
StderrWrite(p, n, blank) ==
  /\ p \in reading
  /\ StderrWritten + n <= MaxStderrBlocks
  /\ stream' = [stream EXCEPT ![p] = @ \o Chunk(p, n, blank)]
  /\ stderrBuf' = [stderrBuf EXCEPT ![p] = AppendChunk(@, Chunk(p, n, blank))]
  /\ UNCHANGED <<daemonVars, pipeVars, afVars, lastError, coreProcess,
                 shouldRun, crashCount, lastCrashAt, alive, killed, spawned,
                 restartTimers, crashWarnings, spawnErrors, startCalls,
                 stoppedStarts, exitLog, lastExited, reading>>

\* lifecycle.ts:80, 92-95  the stream of p ended (the process closed it or
\* exited; the event is not ordered with onExit): the buffer, trimmed, is
\* stored as lastError unless it is empty
StreamEnds(p) ==
  /\ p \in reading
  /\ reading' = reading \ {p}
  /\ lastError' = IF Trim(stderrBuf[p]) # <<>> THEN Trim(stderrBuf[p])
                  ELSE lastError
  /\ UNCHANGED <<daemonVars, pipeVars, afVars, coreProcess, shouldRun,
                 crashCount, lastCrashAt, alive, killed, spawned,
                 restartTimers, crashWarnings, spawnErrors, startCalls,
                 stoppedStarts, exitLog, lastExited, stderrBuf, stream>>

\* part_000:98  the daemon calls startCore() once, when it starts
DiagBoot(spawnOk) ==
  /\ startCalls = 0
  /\ spawned + spawnErrors < MaxDiagSpawns
  /\ StartCoreCall(spawnOk)

DiagRestart(t, spawnOk) ==
  /\ shouldRun => spawned + spawnErrors < MaxDiagSpawns
  /\ RestartTimerFires(t, spawnOk)

DiagAdvanceTime ==
  /\ now + SupervisorStep <= StartTime + MaxDiagSteps * SupervisorStep
  /\ SupervisorAdvanceTime

\* The supervisor as the daemon runs it, with the stderr of its processes.
NextDiagnostics ==
  \/ \E ok \in BOOLEAN : DiagBoot(ok)
  \/ \E t \in restartTimers, ok \in BOOLEAN : DiagRestart(t, ok)
  \/ \E p \in Pids : OnExit(p)
  \/ StopCore
  \/ \E p \in Pids, n \in 1..MaxChunk, blank \in BOOLEAN : StderrWrite(p, n, blank)
  \/ \E p \in Pids : StreamEnds(p)
  \/ DiagAdvanceTime

SpecDiagnostics == InitSupervisor /\ [][NextDiagnostics]_vars

\* ------------------------------------------------ autofix (autofix.ts)
\* Calls are numbered in the order in which they are made.
\* autofix.ts:27-29  setAutoFixNotify(fn), called, if at all, before the
\* first trigger
SetAutoFixNotify ==
  /\ ~notifyFn
  /\ fixPc[1] = "idle"
  /\ notifyFn' = TRUE
  /\ UNCHANGED <<daemonVars, pipeVars, lastError, supVars, attemptCount,
                 lastAttemptAt, fixPc, fixResult, hasOutput, fixKilled,
                 exitCode, killAt, notes, spawnLog>>

\* Mutant of CountAtTrigger: the counter is never reset.
CountAtTriggerNoReset(count, last, t) == count

\* autofix.ts:38-40  attemptCount after the reset test of a trigger at t
CountAtTrigger(count, last, t) == IF t - last > COOLDOWN_MS THEN 0 ELSE count

\* Mutant of Refused: refuses only above the cap.
RefusedAboveCap(count) == count > MAX_ATTEMPTS

\* autofix.ts:42  attemptCount >= MAX_ATTEMPTS
Refused(count) == count >= MAX_ATTEMPTS

\* Mutant of StampAtTrigger: a refused trigger is stamped too.
StampAtTriggerAlways(count, last, t) == t

\* autofix.ts:42-48  lastAttemptAt after a trigger at t whose count after
\* the reset test is count: a refused trigger returns before the stamp
StampAtTrigger(count, last, t) == IF Refused(count) THEN last ELSE t

\* await notifyFn?.(text): the text is sent if a sink is set
Notify(c, text) ==
  notes' = [notes EXCEPT ![c] = IF notifyFn THEN Append(@, text) ELSE @]

\* The calls that have not returned.
InProgress == {c \in Calls : fixPc[c] \notin {"idle", "done", "rejected"}}

\* autofix.ts:34-51  attemptAutoFix up to its first await: the reset, the
\* cap, the count and the stamp, the progress notification
AttemptAutoFix(c) ==
  /\ fixPc[c] = "idle"
  /\ \A k \in Calls : k < c => fixPc[k] # "idle"
  /\ Refused(CountAtTrigger(attemptCount, lastAttemptAt, now))
       \/ Cardinality(InProgress) < MaxOverlap
  /\ lastAttemptAt' =
       StampAtTrigger(CountAtTrigger(attemptCount, lastAttemptAt, now),
                      lastAttemptAt, now)
  /\ LET count == CountAtTrigger(attemptCount, lastAttemptAt, now)
     IN IF Refused(count)
        THEN /\ attemptCount' = count
             /\ fixPc' = [fixPc EXCEPT ![c] = "done"]
             /\ fixResult' = [fixResult EXCEPT ![c] = "false"]
             /\ UNCHANGED notes
        ELSE /\ attemptCount' = count + 1
             /\ fixPc' = [fixPc EXCEPT ![c] = "progress"]
             /\ Notify(c, "progress")
             /\ UNCHANGED fixResult
  /\ UNCHANGED <<daemonVars, pipeVars, lastError, supVars, notifyFn,
                 hasOutput, fixKilled, exitCode, killAt, spawnLog>>

\* attemptAutoFix returns or rejects: its locals and the record of its
\* notifications are gone (a kill timer that a failed read left behind
\* kills a process that nothing waits for)
Return(c, how, value) ==
  /\ fixPc' = [fixPc EXCEPT ![c] = how]
  /\ fixResult' = [fixResult EXCEPT ![c] = value]
  /\ hasOutput' = [hasOutput EXCEPT ![c] = FALSE]
  /\ fixKilled' = [fixKilled EXCEPT ![c] = FALSE]
  /\ exitCode' = [exitCode EXCEPT ![c] = "none"]
  /\ notes' = [notes EXCEPT ![c] = <<>>]
  /\ killAt' = [killAt EXCEPT ![c] = 0]

\* autofix.ts:113-116  catch: await notifyFn?.("error interno")
CatchError(c) ==
  /\ fixPc' = [fixPc EXCEPT ![c] = "notifyError"]
  /\ Notify(c, "error")

\* autofix.ts:51-90  the progress notification returned: Bun.spawn, which
\* raises (caught) or returns the process; the kill timer; await stdout
ProgressReturns(c, spawnOk) ==
  /\ fixPc[c] = "progress"
  /\ IF spawnOk
     THEN /\ spawnLog' = Append(spawnLog, now)
          /\ killAt' = [killAt EXCEPT ![c] = now + AUTOFIX_TIMEOUT]
          /\ fixPc' = [fixPc EXCEPT ![c] = "stdout"]
          /\ UNCHANGED notes
     ELSE /\ CatchError(c)
          /\ UNCHANGED <<spawnLog, killAt>>
  /\ UNCHANGED <<daemonVars, pipeVars, lastError, supVars, attemptCount,
                 lastAttemptAt, notifyFn, fixResult, hasOutput, fixKilled,
                 exitCode>>

\* autofix.ts:51  the progress notification rejected: the await is in no
\* try block, so attemptAutoFix rejects
ProgressThrows(c) ==
  /\ fixPc[c] = "progress"
  /\ notifyFn
  /\ Return(c, "rejected", "notify_error")
  /\ UNCHANGED <<daemonVars, pipeVars, lastError, supVars, attemptCount,
                 lastAttemptAt, notifyFn, spawnLog>>

\* autofix.ts:90-94  stdout was read to its end
StdoutRead(c, out) ==
  /\ fixPc[c] = "stdout"
  /\ fixPc' = [fixPc EXCEPT ![c] = "exited"]
  /\ hasOutput' = [hasOutput EXCEPT ![c] = out]
  /\ UNCHANGED <<daemonVars, pipeVars, lastError, supVars, attemptCount,
                 lastAttemptAt, notifyFn, fixResult, fixKilled, exitCode,
                 killAt, notes, spawnLog>>

\* autofix.ts:90, 98  reading stdout or stderr failed: caught
ReadFails(c) ==
  /\ fixPc[c] \in {"stdout", "stderr"}
  /\ CatchError(c)
  /\ UNCHANGED <<daemonVars, pipeVars, lastError, supVars, attemptCount,
                 lastAttemptAt, notifyFn, fixResult, hasOutput, fixKilled,
                 exitCode, killAt, spawnLog>>

\* autofix.ts:86-88  the kill timer is due: proc.kill()
KillTimer(c) ==
  /\ killAt[c] # 0
  /\ killAt[c] <= now
  /\ killAt' = [killAt EXCEPT ![c] = 0]
  /\ fixKilled' = [fixKilled EXCEPT ![c] = TRUE]
  /\ UNCHANGED <<daemonVars, pipeVars, lastError, supVars, attemptCount,
                 lastAttemptAt, notifyFn, fixPc, fixResult, hasOutput,
                 exitCode, notes, spawnLog>>

\* autofix.ts:94-112  hasOutput and the exit code decide the outcome
Applied(exitOk, out) == ~(~exitOk /\ ~out)

\* autofix.ts:91-111  the process exited (with code 0: exitOk; a killed
\* process does not): clearTimeout; the failure path reads stderr, the
\* other sends the "applied" notification
ProcExited(c, exitOk) ==
  /\ fixPc[c] = "exited"
  /\ exitOk => ~fixKilled[c]
  /\ killAt' = [killAt EXCEPT ![c] = 0]
  /\ exitCode' = [exitCode EXCEPT ![c] = IF exitOk THEN "zero" ELSE "nonzero"]
  /\ IF Applied(exitOk, hasOutput[c])
     THEN /\ fixPc' = [fixPc EXCEPT ![c] = "notifyApplied"]
          /\ Notify(c, "applied")
     ELSE /\ fixPc' = [fixPc EXCEPT ![c] = "stderr"]
          /\ UNCHANGED notes
  /\ UNCHANGED <<daemonVars, pipeVars, lastError, supVars, attemptCount,
                 lastAttemptAt, notifyFn, fixResult, hasOutput, fixKilled,
                 spawnLog>>

\* autofix.ts:98-100  stderr was read: the "failed" notification
StderrRead(c) ==
  /\ fixPc[c] = "stderr"
  /\ fixPc' = [fixPc EXCEPT ![c] = "notifyFailed"]
  /\ Notify(c, "failed")
  /\ UNCHANGED <<daemonVars, pipeVars, lastError, supVars, attemptCount,
                 lastAttemptAt, notifyFn, fixResult, hasOutput, fixKilled,
                 exitCode, killAt, spawnLog>>

\* autofix.ts:100-101, 111-112, 115-116  the final notification returned
FinalReturns(c) ==
  /\ fixPc[c] \in {"notifyApplied", "notifyFailed", "notifyError"}
  /\ Return(c, "done", IF fixPc[c] = "notifyApplied" THEN "true" ELSE "false")
  /\ UNCHANGED <<daemonVars, pipeVars, lastError, supVars, attemptCount,
                 lastAttemptAt, notifyFn, spawnLog>>

\* autofix.ts:100, 111, 115  the final notification rejected: inside the
\* try it is caught (and the "error" notification follows), inside the
\* catch it leaves attemptAutoFix
FinalThrows(c) ==
  /\ fixPc[c] \in {"notifyApplied", "notifyFailed", "notifyError"}
  /\ notifyFn
  /\ IF fixPc[c] = "notifyError"
     THEN Return(c, "rejected", "notify_error")
     ELSE /\ CatchError(c)
          /\ UNCHANGED <<fixResult, hasOutput, fixKilled, exitCode, killAt>>
  /\ UNCHANGED <<daemonVars, pipeVars, lastError, supVars, attemptCount,
                 lastAttemptAt, notifyFn, spawnLog>>

\* The clock of autofix advances by half the cooldown.
AutofixStep == COOLDOWN_MS \div 2

AutofixAdvanceTime ==
  /\ now + AutofixStep <= StartTime + MaxAutofixSteps * AutofixStep
  /\ \A c \in Calls : killAt[c] = 0 \/ killAt[c] > now
  /\ now' = now + AutofixStep
  /\ UNCHANGED <<daemonVars, policy, pc, delivered, sendPosts, result, qVars,
                 fbVars>>

NextAutofix ==
  \/ SetAutoFixNotify
  \/ \E c \in 1..MaxFullCalls : AttemptAutoFix(c)
  \/ \E c \in Calls, ok \in BOOLEAN : ProgressReturns(c, ok)
  \/ \E c \in Calls : ProgressThrows(c)
  \/ \E c \in Calls, out \in BOOLEAN : StdoutRead(c, out)
  \/ \E c \in Calls : ReadFails(c)
  \/ \E c \in Calls : KillTimer(c)
  \/ \E c \in Calls, ok \in BOOLEAN : ProcExited(c, ok)
  \/ \E c \in Calls : StderrRead(c)
  \/ \E c \in Calls : FinalReturns(c)
  \/ \E c \in Calls : FinalThrows(c)
  \/ AutofixAdvanceTime

SpecAutofix == InitSupervisor /\ [][NextAutofix]_vars

\* The triggers of autofix where the notification sink, the spawn and the
\* reads do not fail and claude prints a summary: what attemptCount and
\* lastAttemptAt become does not depend on them.
NextTriggers ==
  \/ SetAutoFixNotify
  \/ \E c \in 1..MaxTriggers : AttemptAutoFix(c)
  \/ \E c \in Calls : ProgressReturns(c, TRUE)
  \/ \E c \in Calls : StdoutRead(c, TRUE)
  \/ \E c \in Calls : KillTimer(c)
  \/ \E c \in Calls, ok \in BOOLEAN : ProcExited(c, ok)
  \/ \E c \in Calls : FinalReturns(c)
  \/ AutofixAdvanceTime

SpecTriggers == InitSupervisor /\ [][NextTriggers]_vars

\* The triggers of autofix where an accepted call is made only when no
\* other call is in progress (a refused call returns at once and is made
\* at any time), every process prints a summary and exits with code 0.
NextSerialTriggers ==
  \/ SetAutoFixNotify
  \/ \E c \in Calls :
       /\ InProgress = {}
            \/ Refused(CountAtTrigger(attemptCount, lastAttemptAt, now))
       /\ AttemptAutoFix(c)
  \/ \E c \in Calls : ProgressReturns(c, TRUE)
  \/ \E c \in Calls : StdoutRead(c, TRUE)
  \/ \E c \in Calls : KillTimer(c)
  \/ \E c \in Calls : ProcExited(c, TRUE)
  \/ \E c \in Calls : FinalReturns(c)
  \/ AutofixAdvanceTime

SpecSerialTriggers == InitSupervisor /\ [][NextSerialTriggers]_vars

\* ------------------------------------------ fallbackClaude (fallback.ts)
\* Calls are numbered in the order in which they are made; they share no
\* state.  A string is the sequence of its characters; of a character the
\* model keeps whether it is whitespace and which text it belongs to.
\* fallback.ts:38  config.claudeTimeout, in ms (a configuration value; here
\* two clock steps)
claudeTimeout == 2000

\* A character of what the CLI writes to stdout.
CliChar(blank) == [blank |-> blank, of |-> "stdout"]

\* What the CLI can write to stdout in one call.
CliOutputs ==
  UNION {[1..n -> {CliChar(b) : b \in BOOLEAN}] : n \in 0..MaxCliOutput}

\* fallback.ts:47, 50, 53  the fixed "[Fallback mode] ..." strings, one
\* (non-blank) symbol each
FixedText(name) == <<[blank |-> FALSE, of |-> name]>>

FallbackTexts == {FixedText(t) : t \in CliTexts \ {"cli_output"}}

\* Mutant of OutputOrEmpty: the output is not trimmed.
OutputOrEmptyUntrimmed(output) ==
  IF output # <<>> THEN output ELSE FixedText("cli_empty_text")

\* fallback.ts:50  output.trim() || "[Fallback mode] Empty response ..."
OutputOrEmpty(output) ==
  IF Trim(output) # <<>> THEN Trim(output) ELSE FixedText("cli_empty_text")

\* fallbackClaude returns text
CliReturn(c, text) ==
  /\ cliPc' = [cliPc EXCEPT ![c] = "returned"]
  /\ cliResult' = [cliResult EXCEPT ![c] = text]

\* fallback.ts:17-40  fallbackClaude up to its first await: Bun.spawn, which
\* raises (caught: 51-54) or returns the process; the kill timer
FallbackClaudeCall(c, spawnOk) ==
  /\ cliPc[c] = "idle"
  /\ \A k \in CliCalls : k < c => cliPc[k] # "idle"
  /\ IF spawnOk
     THEN /\ cliPc' = [cliPc EXCEPT ![c] = "stdout"]
          /\ cliSpawnedAt' = [cliSpawnedAt EXCEPT ![c] = now]
          /\ cliKillAt' = [cliKillAt EXCEPT ![c] = now + claudeTimeout]
          /\ UNCHANGED cliResult
     ELSE /\ CliReturn(c, FixedText("cli_unreachable_text"))
          /\ UNCHANGED <<cliSpawnedAt, cliKillAt>>
  /\ UNCHANGED <<exceptCli, cliOutput, cliExit, cliKilled>>

\* fallback.ts:40  stdout was read to its end
CliStdoutRead(c, out) ==
  /\ cliPc[c] = "stdout"
  /\ cliPc' = [cliPc EXCEPT ![c] = "exited"]
  /\ cliOutput' = [cliOutput EXCEPT ![c] = out]
  /\ UNCHANGED <<exceptCli, cliExit, cliKilled, cliKillAt, cliSpawnedAt,
                 cliResult>>

\* fallback.ts:40, 45, 51-54  reading stdout or stderr failed: caught (a
\* kill timer that is still set stays set)
CliReadFails(c) ==
  /\ cliPc[c] \in {"stdout", "stderr"}
  /\ CliReturn(c, FixedText("cli_unreachable_text"))
  /\ UNCHANGED <<exceptCli, cliOutput, cliExit, cliKilled, cliKillAt,
                 cliSpawnedAt>>

\* fallback.ts:36-38  the kill timer is due: proc.kill()
CliKillTimer(c) ==
  /\ cliKillAt[c] # 0
  /\ cliKillAt[c] <= now
  /\ cliKillAt' = [cliKillAt EXCEPT ![c] = 0]
  /\ cliKilled' = [cliKilled EXCEPT ![c] = TRUE]
  /\ UNCHANGED <<exceptCli, cliPc, cliOutput, cliExit, cliSpawnedAt,
                 cliResult>>

\* fallback.ts:41-50  the process exited (with code 0: exitOk; a killed
\* process does not): clearTimeout; a non-zero code leads to the read of
\* stderr, code 0 to the return of the output
CliExited(c, exitOk) ==
  /\ cliPc[c] = "exited"
  /\ exitOk => ~cliKilled[c]
  /\ cliExit' = [cliExit EXCEPT ![c] = IF exitOk THEN "zero" ELSE "nonzero"]
  /\ cliKillAt' = [cliKillAt EXCEPT ![c] = 0]
  /\ IF exitOk
     THEN CliReturn(c, OutputOrEmpty(cliOutput[c]))
     ELSE /\ cliPc' = [cliPc EXCEPT ![c] = "stderr"]
          /\ UNCHANGED cliResult
  /\ UNCHANGED <<exceptCli, cliOutput, cliKilled, cliSpawnedAt>>

\* fallback.ts:45-47  stderr was read: the "Claude CLI failed" string
CliStderrRead(c) ==
  /\ cliPc[c] = "stderr"
  /\ CliReturn(c, FixedText("cli_failed_text"))
  /\ UNCHANGED <<exceptCli, cliOutput, cliExit, cliKilled, cliKillAt,
                 cliSpawnedAt>>

\* The clock while fallbackClaude calls are followed; a kill timer that is
\* due runs before the clock moves on.
CliAdvanceTime ==
  /\ now + TimeStep <= StartTime + MaxCliSteps * TimeStep
  /\ \A c \in CliCalls : cliKillAt[c] = 0 \/ cliKillAt[c] > now
  /\ now' = now + TimeStep
  /\ UNCHANGED <<daemonVars, policy, pc, delivered, sendPosts, result, qVars,
                 fbVars>>

NextFallbackCli ==
  \/ \E c \in CliCalls, ok \in BOOLEAN : FallbackClaudeCall(c, ok)
  \/ \E c \in CliCalls, out \in CliOutputs : CliStdoutRead(c, out)
  \/ \E c \in CliCalls : CliReadFails(c)
  \/ \E c \in CliCalls : CliKillTimer(c)
  \/ \E c \in CliCalls, ok \in BOOLEAN : CliExited(c, ok)
  \/ \E c \in CliCalls : CliStderrRead(c)
  \/ CliAdvanceTime

SpecFallbackCli == InitSupervisor /\ [][NextFallbackCli]_vars

\* ---------------------------------------------------------------- clock
\* How long the clock is followed: past the expiry of every queued entry
\* in a queue-and-drain deployment, past every sleep in a fallback one.
Horizon ==
  StartTime + (IF policy = "queue" THEN MaxTicks * RETRY_INTERVAL
               ELSE MaxFallbackSteps * TimeStep)

\* A timer that is due runs before the clock moves on.
TimerDue ==
  \/ retryTimer /\ nextTickAt <= now
  \/ \E m \in Msgs : pc[m] = "sleep" /\ wakeAt[m] <= now

AdvanceTime ==
  /\ now + TimeStep <= Horizon
  /\ ~TimerDue
  /\ now' = now + TimeStep
  /\ UNCHANGED <<daemonVars, policy, pc, delivered, sendPosts, result, qVars,
                 fbVars>>

NextQueue ==
  \/ \E m \in Msgs : QSend(m)
  \/ \E m \in Msgs : QFirstPostOk(m)
  \/ \E m \in Msgs : QFirstPostFail(m)
  \/ \E m \in Msgs : QCoreNeverAnswers(m)
  \/ Tick
  \/ \E m \in Msgs : TickPostOk(m)
  \/ \E m \in Msgs : TickPostFail(m)

NextFallback ==
  \/ \E m \in Msgs, cb \in BOOLEAN : FSend(m, cb)
  \/ \E m \in Msgs : FFirstPostOk(m)
  \/ \E m \in Msgs : FFirstPostFail(m)
  \/ \E m \in Msgs : FStatus1Ok(m)
  \/ \E m \in Msgs : FStatusThrows(m)
  \/ \E m \in Msgs : FWake(m)
  \/ \E m \in Msgs : FSecondPostOk(m)
  \/ \E m \in Msgs : FSecondPostFail(m)
  \/ \E m \in Msgs : FStatus2Ok(m)
  \/ \E m \in Msgs, o \in CliOutcomes : FCliReturns(m, o)

Next == NextQueue \/ NextFallback \/ AdvanceTime

\* The queue-and-drain version, with what waits in the queue at each call
\* of sendToCore noted.
NextSubmissionOrder ==
  \/ \E m \in Msgs : QSendBehind(m)
  \/ \E m \in Msgs : QFirstPostOk(m)
  \/ \E m \in Msgs : QFirstPostFail(m)
  \/ \E m \in Msgs : QCoreNeverAnswers(m)
  \/ Tick
  \/ \E m \in Msgs : TickPostOk(m)
  \/ \E m \in Msgs : TickPostFail(m)
  \/ AdvanceTime

Spec == Init /\ [][Next]_vars

InitSubmissionOrder == Init /\ policy = "queue"

SpecSubmissionOrder == InitSubmissionOrder /\ [][NextSubmissionOrder]_vars

\* ---------------- isCoreHealthy (bridge.ts:96-103, codex-login.ts:294-301)
\* Probes are numbered in the order in which they are made.
\* codex-login.ts:296  AbortSignal.timeout(2000)
HEALTH_TIMEOUT == 2000

\* How a GET /health can end.
HealthOutcomes == {"2xx", "non2xx", "exception", "timeout"}

\* Mutant of HealthValue: any response counts as healthy.
HealthValueAnyResponse(outcome) == outcome \in {"2xx", "non2xx"}

\* codex-login.ts:297-299  return response.ok; catch { return false }
HealthValue(outcome) == outcome = "2xx"

\* codex-login.ts:294-296  isCoreHealthy up to its await of the GET
IsCoreHealthy(h) ==
  /\ healthPc[h] = "idle"
  /\ \A k \in Probes : k < h => healthPc[k] # "idle"
  /\ healthPc' = [healthPc EXCEPT ![h] = "get"]
  /\ healthDueAt' = [healthDueAt EXCEPT ![h] = now + HEALTH_TIMEOUT]
  /\ UNCHANGED <<exceptHealth, healthOutcome, healthResult>>

\* isCoreHealthy returns, the GET having ended with outcome
HealthReturn(h, outcome) ==
  /\ healthPc' = [healthPc EXCEPT ![h] = "returned"]
  /\ healthDueAt' = [healthDueAt EXCEPT ![h] = 0]
  /\ healthOutcome' = [healthOutcome EXCEPT ![h] = outcome]
  /\ healthResult' = [healthResult EXCEPT ![h] = HealthValue(outcome)]
  /\ UNCHANGED exceptHealth

\* codex-login.ts:296-297  Core answered the GET, with a 2xx status or
\* another one
HealthResponds(h, ok) ==
  /\ healthPc[h] = "get"
  /\ HealthReturn(h, IF ok THEN "2xx" ELSE "non2xx")

\* codex-login.ts:298-299  fetch raised (connection refused, ...)
HealthThrows(h) ==
  /\ healthPc[h] = "get"
  /\ HealthReturn(h, "exception")

\* codex-login.ts:296, 298-299  the timeout signal aborted the GET
HealthTimesOut(h) ==
  /\ healthPc[h] = "get"
  /\ healthDueAt[h] <= now
  /\ HealthReturn(h, "timeout")

\* The clock of the pipeline; a timeout that is due runs before the clock
\* moves on.
HealthAdvanceTime ==
  /\ now + TimeStep <= StartTime + MaxHealthSteps * TimeStep
  /\ \A h \in Probes : healthPc[h] = "get" => healthDueAt[h] > now
  /\ AdvanceTime

\* The fallback pipeline with calls of isCoreHealthy made beside it.
NextHealth ==
  \/ NextFallback
  \/ \E h \in Probes : IsCoreHealthy(h)
  \/ \E h \in Probes, ok \in BOOLEAN : HealthResponds(h, ok)
  \/ \E h \in Probes : HealthThrows(h)
  \/ \E h \in Probes : HealthTimesOut(h)
  \/ HealthAdvanceTime

SpecHealth == InitSupervisor /\ [][NextHealth]_vars

\* ------------------------- the daemon's message handler (daemon/index)
\* The handler of message m is in "sendToCore" until the promise of its
\* sendToCore call has settled.
\* part_000:31-33  telegram.onMessage: the handler calls sendToCore
OnMessage(m) ==
  /\ m <= MaxHandled
  /\ QSend(m)

\* part_000:33-49  sendToCore resolved: the text is cut into chunks, which
\* are sent one by one, and then the files; items counts both
HandlerResolved(m, items) ==
  /\ handlerPc[m] = "sendToCore"
  /\ pc[m] = "resolved"
  /\ handlerPc' = [handlerPc EXCEPT ![m] = IF items = 0 THEN "done"
                                           ELSE "relay"]
  /\ handlerLeft' = [handlerLeft EXCEPT ![m] = items]
  /\ UNCHANGED <<exceptHandler, handlerLog>>

\* part_000:50-53  catch: log, then telegram.send(chatId, "Error processing
\* your message. Please try again.", "plain") is called
HandlerCatch(m, log) ==
  /\ handlerPc' = [handlerPc EXCEPT ![m] = "sendError"]
  /\ handlerLog' = [handlerLog EXCEPT ![m] = Append(log, "error_text")]

\* part_000:33, 50  sendToCore rejected (its entry expired in the queue)
HandlerRejected(m) ==
  /\ handlerPc[m] = "sendToCore"
  /\ pc[m] = "rejected"
  /\ HandlerCatch(m, handlerLog[m])
  /\ UNCHANGED <<exceptHandler, handlerLeft>>

\* part_000:41, 47  a chunk or a file was sent to the chat
RelaySent(m) ==
  /\ handlerPc[m] = "relay"
  /\ handlerLeft' = [handlerLeft EXCEPT ![m] = @ - 1]
  /\ handlerPc' = [handlerPc EXCEPT ![m] = IF handlerLeft[m] = 1 THEN "done"
                                           ELSE "relay"]
  /\ UNCHANGED <<exceptHandler, handlerLog>>

\* part_000:36-47, 50  relaying failed: cutting the text raised (a response
\* without text), or telegram.send or telegram.sendFile rejected
RelayFails(m) ==
  /\ \/ handlerPc[m] = "relay"
     \/ handlerPc[m] = "sendToCore" /\ pc[m] = "resolved"
  /\ HandlerCatch(m, Append(handlerLog[m], "relay_failed"))
  /\ handlerLeft' = [handlerLeft EXCEPT ![m] = 0]
  /\ UNCHANGED exceptHandler

\* part_000:53  the error text was sent
ErrorSent(m) ==
  /\ handlerPc[m] = "sendError"
  /\ handlerPc' = [handlerPc EXCEPT ![m] = "done"]
  /\ UNCHANGED <<exceptHandler, handlerLeft, handlerLog>>

\* Mutant of ErrorSendFails: the send of the error text is in no try block.
ErrorSendEscapes(m) ==
  /\ handlerPc[m] = "sendError"
  /\ handlerPc' = [handlerPc EXCEPT ![m] = "threw"]
  /\ handlerLog' = [handlerLog EXCEPT ![m] = Append(@, "error_failed")]
  /\ UNCHANGED <<exceptHandler, handlerLeft>>

\* part_000:53-56  the send of the error text rejected: caught and logged
ErrorSendFails(m) ==
  /\ handlerPc[m] = "sendError"
  /\ handlerPc' = [handlerPc EXCEPT ![m] = "done"]
  /\ handlerLog' = [handlerLog EXCEPT ![m] = Append(@, "error_failed")]
  /\ UNCHANGED <<exceptHandler, handlerLeft>>

\* The daemon: messages arrive from the chat, each is handed to the
\* queue-and-drain pipeline by its handler.
NextDaemon ==
  \/ \E m \in Msgs : OnMessage(m)
  \/ \E m \in Msgs : QFirstPostOk(m)
  \/ \E m \in Msgs : QFirstPostFail(m)
  \/ \E m \in Msgs : QCoreNeverAnswers(m)
  \/ Tick
  \/ \E m \in Msgs : TickPostOk(m)
  \/ \E m \in Msgs : TickPostFail(m)
  \/ \E m \in Msgs, items \in 0..MaxRelay : HandlerResolved(m, items)
  \/ \E m \in Msgs : HandlerRejected(m)
  \/ \E m \in Msgs : RelaySent(m)
  \/ \E m \in Msgs : RelayFails(m)
  \/ \E m \in Msgs : ErrorSent(m)
  \/ \E m \in Msgs : ErrorSendFails(m)
  \/ AdvanceTime

InitDaemon == Init /\ policy = "queue"

SpecDaemon == InitDaemon /\ [][NextDaemon]_vars

\* ------------------------ codex device auth (codex-login.ts:1-75)
\* codex-login.ts:22
RETRY_COOLDOWN_MS == 30000

\* Mutant of LoginRefused: the in-progress lock is not tested.
LoginRefusedByCooldownOnly(inProgress, last, t) ==
  t - last < RETRY_COOLDOWN_MS

\* codex-login.ts:34-43  the trigger is skipped: a run is in progress, or
\* the last start is less than RETRY_COOLDOWN_MS ago
LoginRefused(inProgress, last, t) ==
  inProgress \/ t - last < RETRY_COOLDOWN_MS

\* codex-login.ts:31-67  maybeStartCodexDeviceAuth(rawCoreText), hint being
\* whether the text is not empty and matches an auth hint; on a start, the
\* synchronous part of runCodexDeviceAuth: Bun.spawn, which raises (caught,
\* the run ends) or returns the process.  Date.now() is more than
\* RETRY_COOLDOWN_MS past the epoch.
MaybeStartCodexDeviceAuth(hint, spawnOk) ==
  /\ now >= RETRY_COOLDOWN_MS
  /\ Len(loginStarts) < MaxLoginRuns
  /\ hint
  /\ ~LoginRefused(loginInProgress, lastLoginAttemptAt, now)
  /\ lastLoginAttemptAt' = now
  /\ loginInProgress' = TRUE
  /\ loginStarts' = Append(loginStarts, now)
  /\ IF spawnOk
     THEN loginRunning' = loginRunning + 1 /\ UNCHANGED loginEnded
     ELSE loginEnded' = loginEnded + 1 /\ UNCHANGED loginRunning
  /\ loginTriggers' = loginTriggers + 1
  /\ UNCHANGED exceptLogin

\* codex-login.ts:32-43  a trigger that starts nothing: no hint in the
\* text, a run in progress, or the cooldown
LoginTriggerSkipped(hint) ==
  /\ now >= RETRY_COOLDOWN_MS
  /\ loginTriggers < MaxLoginTriggers
  /\ ~hint \/ LoginRefused(loginInProgress, lastLoginAttemptAt, now)
  /\ loginTriggers' = loginTriggers + 1
  /\ UNCHANGED <<exceptLogin, loginInProgress, lastLoginAttemptAt,
                 loginRunning, loginEnded, loginStarts>>

\* codex-login.ts:69-74  a codex login process exited, with any code:
\* runCodexDeviceAuth returns
LoginExited ==
  /\ loginRunning > 0
  /\ loginRunning' = loginRunning - 1
  /\ loginEnded' = loginEnded + 1
  /\ UNCHANGED <<exceptLogin, loginInProgress, lastLoginAttemptAt,
                 loginStarts, loginTriggers>>

\* codex-login.ts:47-49  .finally(() => { loginInProgress = false })
LoginFinally ==
  /\ loginEnded > 0
  /\ loginEnded' = loginEnded - 1
  /\ loginInProgress' = FALSE
  /\ UNCHANGED <<exceptLogin, lastLoginAttemptAt, loginRunning, loginStarts,
                 loginTriggers>>

\* The clock of codex device auth advances by half the cooldown.
LoginStep == RETRY_COOLDOWN_MS \div 2

LoginAdvanceTime ==
  /\ now + LoginStep <= StartTime + MaxLoginSteps * LoginStep
  /\ now' = now + LoginStep
  /\ UNCHANGED <<daemonVars, policy, pc, delivered, sendPosts, result, qVars,
                 fbVars>>

NextLogin ==
  \/ \E hint \in BOOLEAN, ok \in BOOLEAN : MaybeStartCodexDeviceAuth(hint, ok)
  \/ \E hint \in BOOLEAN : LoginTriggerSkipped(hint)
  \/ LoginExited
  \/ LoginFinally
  \/ LoginAdvanceTime

SpecLogin == InitSupervisor /\ [][NextLogin]_vars

\* ------------------- core/processor (core/onboarding.ts:126-196)
\* Calls of processWithClaude are numbered in the order in which they are
\* made.
\* Mutant of StartsNext: the processing flag is not tested.
StartsNextWhileBusy(q, busy) == q # <<>>

\* onboarding.ts:180  processNext goes on: not (processing or empty queue)
StartsNext(q, busy) == ~busy /\ q # <<>>

\* onboarding.ts:179-186  processNext() with queue q, processing busy and
\* the runClaude invocations r in flight: it returns at once, or sets the
\* flag, shifts the head and calls runClaude for it
ProcessNext(q, busy, r) ==
  IF StartsNext(q, busy)
  THEN /\ processing' = TRUE
       /\ claudeQueue' = Tail(q)
       /\ running' = r \cup {Head(q)}
       /\ runOrder' = Append(runOrder, Head(q))
  ELSE /\ processing' = busy
       /\ claudeQueue' = q
       /\ running' = r
       /\ UNCHANGED runOrder

\* onboarding.ts:172-177  processWithClaude(message): push, processNext()
ProcessWithClaude(c) ==
  /\ c = procCalls + 1
  /\ procCalls' = c
  /\ ProcessNext(Append(claudeQueue, c), processing, running)
  /\ UNCHANGED <<exceptProc, procResult>>

\* Mutant of RunClaudeEnds: the flag is cleared on success only.
RunClaudeEndsNoFinally(c, ok) ==
  /\ c \in running
  /\ procResult' = [procResult EXCEPT ![c] = IF ok THEN "result"
                                            ELSE "error_text"]
  /\ IF ok
     THEN ProcessNext(claudeQueue, FALSE, running \ {c})
     ELSE /\ running' = running \ {c}
          /\ UNCHANGED <<processing, claudeQueue, runOrder>>
  /\ UNCHANGED <<exceptProc, procCalls>>

\* onboarding.ts:185-195  the runClaude invocation of call c ended, by
\* returning (ok) or by throwing: resolve(result) or resolve("Error
\* processing your message. Please try again."); finally processing =
\* false and processNext()
RunClaudeEnds(c, ok) ==
  /\ c \in running
  /\ procResult' = [procResult EXCEPT ![c] = IF ok THEN "result"
                                            ELSE "error_text"]
  /\ ProcessNext(claudeQueue, FALSE, running \ {c})
  /\ UNCHANGED <<exceptProc, procCalls>>

NextProcessor ==
  \/ \E c \in ProcCalls : ProcessWithClaude(c)
  \/ \E c \in ProcCalls, ok \in BOOLEAN : RunClaudeEnds(c, ok)

SpecProcessor == InitSupervisor /\ [][NextProcessor]_vars

\* Every runClaude invocation ends.
SpecProcessorLive ==
  /\ SpecProcessor
  /\ \A c \in ProcCalls : WF_vars(\E ok \in BOOLEAN : RunClaudeEnds(c, ok))

\* ------------------------- daemon/agent-cli: runWithCliFallback
\* agent-cli:38-43  the order in which the CLIs are looked up
AgentClis == <<"claude", "codex">>

\* What proc.exited can resolve to: 0, or some other code (1 stands for
\* all of them; a process killed by the timeout ends with one of these).
ExitCodes == {0, 1}

\* agent-cli:38-43  getAvailableAgentCli, avail being the CLIs whose path
\* resolveAgentCliPath finds
GetAvailableAgentCli(avail) ==
  SelectSeq(AgentClis, LAMBDA cli : cli \in avail)

\* Mutant of KeepsPartial: a later partial result replaces an earlier one.
KeepsLastPartial(exit, output, part) == exit # 0 /\ output # <<>>

\* codex-login.ts:184  result.exitCode !== 0 && output && partial === null
KeepsPartial(exit, output, part) ==
  exit # 0 /\ output # <<>> /\ part = <<>>

\* codex-login.ts:169-173, 198  the head of the for loop: the next
\* candidate is pushed on attempted and run, or the loop is over and the
\* partial result (or null, here <<>>) is returned
AgentLoop(cands, fails, part) ==
  /\ IF cands = <<>>
     THEN /\ agPc' = "returned"
          /\ agResult' = part
          /\ UNCHANGED attempted
     ELSE /\ agPc' = "runSingleCli"
          /\ attempted' = Append(attempted, Head(cands))
          /\ UNCHANGED agResult
  /\ candidates' = IF cands = <<>> THEN cands ELSE Tail(cands)
  /\ failures' = fails
  /\ partial' = part

\* codex-login.ts:163-173  runWithCliFallback up to its first await
RunWithCliFallback(avail) ==
  /\ agPc = "idle"
  /\ agAvail' = avail
  /\ AgentLoop(GetAvailableAgentCli(avail), <<>>, <<>>)
  /\ UNCHANGED <<exceptAgent, agLog>>

\* codex-login.ts:173-191  runSingleCli returns exit code and output
RunSingleCliReturns(exit, out) ==
  /\ agPc = "runSingleCli"
  /\ LET cli == attempted[Len(attempted)]
         output == Trim(out)
     IN /\ agLog' = Append(agLog, [cli |-> cli, threw |-> FALSE,
                                    exitCode |-> exit, output |-> out])
        /\ IF exit = 0 /\ output # <<>>
           THEN /\ agPc' = "returned"
                /\ agResult' = <<[cli |-> cli, output |-> output,
                                  exitCode |-> exit, partial |-> FALSE]>>
                /\ UNCHANGED <<attempted, failures, partial, candidates>>
           ELSE AgentLoop(candidates,
                  Append(failures,
                    [cli |-> cli,
                     reason |-> IF exit = 0 THEN "empty output"
                                            ELSE "exit"]),
                  IF KeepsPartial(exit, output, partial)
                  THEN <<[cli |-> cli, output |-> output,
                          exitCode |-> exit, partial |-> TRUE]>>
                  ELSE partial)
  /\ UNCHANGED <<exceptAgent, agAvail>>

\* codex-login.ts:192-195  runSingleCli throws (the spawn or a read fails)
RunSingleCliThrows ==
  /\ agPc = "runSingleCli"
  /\ agLog' = Append(agLog, [cli |-> attempted[Len(attempted)],
                             threw |-> TRUE, exitCode |-> 1,
                             output |-> <<>>])
  /\ AgentLoop(candidates,
       Append(failures, [cli |-> attempted[Len(attempted)],
                         reason |-> "error"]),
       partial)
  /\ UNCHANGED <<exceptAgent, agAvail>>

NextAgentCli ==
  \/ \E avail \in SUBSET {"claude", "codex"} : RunWithCliFallback(avail)
  \/ \E exit \in ExitCodes, out \in CliOutputs :
       RunSingleCliReturns(exit, out)
  \/ RunSingleCliThrows

SpecAgentCli == InitSupervisor /\ [][NextAgentCli]_vars

\* ================================================================ claims
InQueue(m) == m \in QueuedMsgs(queue)
Increasing(seq) == \A i, j \in 1..Len(seq) : i < j => seq[i] < seq[j]
WasQueued(m) == m \in enqueued
NoPostSucceeded == \A k \in Msgs : delivered[k] = 0

\* C1 (as claimed): the messages queued while Core was down, with Core
\* answering again within the 60s window, are each POSTed successfully
\* exactly once, and their callers are resolved in submission order: none
\* is delivered twice, none is resolved out of order, none is rejected and
\* none leaves the queue unresolved.
C1_QueuedDeliveredOnceInOrder ==
  (policy = "queue" /\ now - StartTime <= MAX_RETRY_TIME) =>
    /\ \A m \in enqueued :
         /\ delivered[m] <= 1
         /\ pc[m] # "rejected"
         /\ ~InQueue(m) => (pc[m] = "resolved" /\ delivered[m] = 1)
    /\ Increasing(SelectSeq(resolveLog, WasQueued))

\* C2 (as claimed): an entry leaves the queue only in a step that settles
\* its own caller.
C2_RemovedEntryIsSettled ==
  [][\A m \in Msgs :
       (m \in QueuedMsgs(queue) /\ m \notin QueuedMsgs(queue'))
          => pc'[m] \in Settled]_vars

\* C3 (as claimed): the retry callbacks are serialized: at most one POST of
\* a queued entry is awaited at any time.
C3_OnePostInFlight == InFlightTotal <= 1

\* C4 (as claimed): every sendToCore call of a queue-and-drain deployment
\* settles in the end.  On finite runs: a call that has not settled is one
\* that a later step still settles: its first POST can still be answered,
\* or its entry is in the queue with the retry timer running (delivery or
\* expiry), or a retry callback awaits its POST.
C4_UnsettledCallCanSettle ==
  policy = "queue" =>
    \A m \in Msgs : pc[m] \in Pending =>
      \/ pc[m] = "post1"
      \/ InQueue(m) /\ retryTimer
      \/ inflight[m] > 0

\* C5 (as claimed): at most one spawned Core process is alive at any time.
C5_AtMostOneAlive == Cardinality(alive) <= 1

\* C6 (as claimed): the promise of the fallback sendToCore never rejects.
C6_FallbackSendNeverRejects ==
  policy = "fallback" => \A m \in Msgs : pc[m] # "rejected"

\* C7: a caller is rejected for expiry only in a step in which its entry is
\* in the queue with an age above MAX_RETRY_TIME: an entry of age 60s or
\* less is never rejected.
C7_NoExpiryWithinWindow ==
  [][policy = "queue" =>
       \A m \in Msgs : (pc'[m] = "rejected" /\ pc[m] # "rejected") =>
          /\ InQueue(m)
          /\ now - EnqueuedAt(queue, m) > MAX_RETRY_TIME]_vars

\* C7 witness: a tick has just run and left in the queue an entry whose age
\* is exactly MAX_RETRY_TIME.
C7_Witness ==
  /\ policy = "queue"
  /\ retryTimer /\ nextTickAt = now + RETRY_INTERVAL
  /\ \E i \in 1..Len(queue) : now - queue[i].enqueuedAt = MAX_RETRY_TIME
                               /\ pc[queue[i].msg] = "queued"

\* C8: while no POST has succeeded, a queued entry never waits beyond the
\* first tick at which its age exceeds MAX_RETRY_TIME: it is in the queue
\* with the timer running, at the last tick that ran (one interval before
\* the next one) its age was at most MAX_RETRY_TIME, its age is never above
\* MAX_RETRY_TIME + RETRY_INTERVAL, and a rejected caller was rejected with
\* the timeout error at an age of at most MAX_RETRY_TIME + RETRY_INTERVAL.
C8_ExpiryAtFirstTickPastWindow ==
  (policy = "queue" /\ NoPostSucceeded) =>
    \A m \in enqueued :
      /\ pc[m] \in {"queued", "rejected"}
      /\ pc[m] = "queued" =>
           /\ InQueue(m) /\ retryTimer
           /\ now - EnqueuedAt(queue, m) <= MAX_RETRY_TIME + RETRY_INTERVAL
           /\ (nextTickAt - RETRY_INTERVAL) - EnqueuedAt(queue, m)
                 <= MAX_RETRY_TIME
      /\ pc[m] = "rejected" =>
           /\ result[m] = "timeout"
           /\ ~InQueue(m)
           /\ rejectedAge[m] <= MAX_RETRY_TIME + RETRY_INTERVAL

\* C8 witness: two callers rejected for expiry though Core never answered,
\* one of them a full retry interval after its window ended.
C8_Witness ==
  /\ policy = "queue" /\ NoPostSucceeded
  /\ \A m \in Msgs : pc[m] = "rejected" /\ result[m] = "timeout"
  /\ \E m \in Msgs : rejectedAge[m] = MAX_RETRY_TIME + RETRY_INTERVAL

\* C9: the step in which the first POST of a call succeeds resolves the
\* caller with Core's response and changes nothing else: no queue entry,
\* no timer, no further POST, no onStatus call and no fallback CLI call;
\* and a resolved call does nothing afterwards.
C9_FirstPostSuccessOnlyResolves ==
  [][\A m \in Msgs :
       /\ (pc[m] = "post1" /\ pc'[m] = "resolved") =>
            /\ result'[m] = "core"
            /\ sendPosts'[m] = 1 /\ cliCalls'[m] = 0 /\ statusCalls'[m] = 0
            /\ ~WasQueued(m)'
            /\ \A k \in Msgs \ {m} : pc'[k] = pc[k] /\ result'[k] = result[k]
            /\ UNCHANGED <<queue, retryTimer, nextTickAt, inflight, enqueued,
                           sendPosts, statusCalls, cliCalls, wakeAt, now>>
       /\ pc[m] = "resolved" =>
            /\ pc'[m] = "resolved" /\ result'[m] = result[m]
            /\ sendPosts'[m] = sendPosts[m] /\ cliCalls'[m] = cliCalls[m]]_vars

\* C9 witness: a call resolved by its first POST while another message is
\* queued and the retry timer runs.
C9_Witness ==
  \E m \in Msgs :
    /\ pc[m] = "resolved" /\ result[m] = "core" /\ sendPosts[m] = 1
    /\ ~WasQueued(m)
    /\ queue # <<>> /\ retryTimer

C11_EnqueuedOnSecondFailure ==
  policy = "queue" => \A m \in enqueued : sendPosts[m] = 2

\* C12: once stopCore has returned, the supervisor stays stopped: no step
\* spawns a process, sets the handle (isCoreUp() stays false) or schedules
\* a restart, whether it is a restart timer that was pending, the exit
\* callback of the killed process or a later call of startCore.
C12_NoSpawnAfterStop ==
  [][~shouldRun =>
       /\ ~shouldRun'
       /\ spawned' = spawned /\ alive' \subseteq alive
       /\ coreProcess = NoProcess /\ coreProcess' = NoProcess
       /\ restartTimers' \subseteq restartTimers]_vars

\* C12 witness: the supervisor is stopped, the killed process has exited,
\* and both a restart timer and the daemon have called startCore since.
C12_Witness ==
  /\ ~shouldRun
  /\ stoppedStarts = {"call", "timer"}
  /\ killed # {} /\ killed \cap alive = {}
  /\ restartTimers = {}

\* C13 (as claimed): a step taken while the supervisor is stopped or while a
\* process handle exists spawns nothing, and a call of startCore() made then
\* leaves the handle, the processes, the crash counters and the timers
\* unchanged.
C13_StartCoreIdempotent ==
  [][(~shouldRun \/ coreProcess # NoProcess) =>
       /\ spawned' = spawned
       /\ startCalls' # startCalls =>
            UNCHANGED <<coreProcess, alive, crashCount, lastCrashAt,
                        restartTimers>>]_vars

\* The exits of the log are each less than CRASH_WINDOW after the one before.
AllClose(log) == \A i \in 2..Len(log) : log[i] - log[i - 1] < CRASH_WINDOW

\* The length of the run of exits that ends the log, each less than
\* CRASH_WINDOW after the one before.
RunLength(log) ==
  CHOOSE k \in 1..Len(log) :
    /\ \A i \in (Len(log) - k + 2)..Len(log) : log[i] - log[i - 1] < CRASH_WINDOW
    /\ k < Len(log) =>
         log[Len(log) - k + 1] - log[Len(log) - k] >= CRASH_WINDOW

IsExit == Len(exitLog') = Len(exitLog) + 1

\* C14: while the worker has exited up to 6 times, each exit less than 10s
\* after the one before, the crash-loop warning has been logged once if
\* there were 6 exits and not at all if there were fewer: it is logged by
\* the exit that follows the 5th and by no other.  An exit 10s or more
\* after the one before sets crashCount to 1.
C14_WarningOnceInSixExits ==
  [][IsExit =>
       /\ (AllClose(exitLog') /\ Len(exitLog') <= 6) =>
            crashWarnings' = (IF Len(exitLog') = 6 THEN 1 ELSE 0)
       /\ (exitLog # <<>> /\ now - exitLog[Len(exitLog)] >= CRASH_WINDOW) =>
            crashCount' = 1]_vars

\* C14 witness: 6 exits, each less than 10s after the one before, and one
\* warning, logged by the 6th.
C14_Witness ==
  /\ Len(exitLog) = 6 /\ AllClose(exitLog)
  /\ crashWarnings = 1 /\ crashCount = 6

\* C15: every exit sets crashCount to crashCount + 1 if less than
\* CRASH_WINDOW has passed since the exit before and to 1 otherwise, and
\* lastCrashAt to its own time; after an exit crashCount is at least 1 and
\* is the length of the run of exits less than CRASH_WINDOW apart that this
\* exit ends.
C15_CrashCountIsRunLength ==
  [][IsExit =>
       /\ crashCount' = (IF exitLog # <<>>
                            /\ now - exitLog[Len(exitLog)] < CRASH_WINDOW
                         THEN crashCount + 1 ELSE 1)
       /\ lastCrashAt' = now
       /\ crashCount' >= 1
       /\ crashCount' = RunLength(exitLog')]_vars

\* C15 witness: the last exit came exactly CRASH_WINDOW after the one
\* before, which had ended a run of two: the counter is back at 1.
C15_Witness ==
  /\ Len(exitLog) >= 3 /\ crashCount = 1
  /\ exitLog[Len(exitLog)] - exitLog[Len(exitLog) - 1] = CRASH_WINDOW
  /\ exitLog[Len(exitLog) - 1] - exitLog[Len(exitLog) - 2] < CRASH_WINDOW

\* C16: an exit seen while shouldRun is true schedules a call of startCore
\* RESTART_DELAY later, whatever crashCount is, and an exit seen while it
\* is false schedules none; a scheduled restart is never overdue, and when
\* it runs, at its due time, the supervisor still running, it makes a spawn
\* attempt.
C16_EveryExitSchedulesRestart ==
  [][/\ IsExit =>
          IF shouldRun
          THEN \E t \in restartTimers' \ restartTimers :
                 t.due = now + RESTART_DELAY
          ELSE restartTimers' = restartTimers
     /\ \A t \in restartTimers' : t.due >= now'
     /\ \A t \in restartTimers \ restartTimers' :
          /\ t.due = now
          /\ shouldRun =>
               spawned' + spawnErrors' = spawned + spawnErrors + 1]_vars

\* C16 witness: the crash-loop warning was logged at the 6th exit, and the
\* restart scheduled by that exit has spawned the 7th process.
C16_Witness ==
  /\ crashWarnings >= 1 /\ crashCount > CRASH_LOOP_THRESHOLD
  /\ Len(exitLog) = 6 /\ spawned = 7 /\ coreProcess = 7
  /\ now = lastCrashAt + RESTART_DELAY

\* C19 (as claimed): a call of startCore whose spawn fails leaves the
\* handle as it was and, the supervisor still running, leaves a restart
\* scheduled: the failed spawn is tried again by a later timer.  (In the
\* code the failure leaves startCore as an error: spawnErrors counts the
\* calls that raised.)
C19_SpawnFailureRetried ==
  [][spawnErrors' > spawnErrors =>
       /\ coreProcess' = coreProcess
       /\ shouldRun' => \E t \in restartTimers' : t.due > now]_vars

\* The last k elements of a sequence.
LastOf(seq, k) == [i \in 1..k |-> seq[Len(seq) - k + i]]

MinOf(a, b) == IF a < b THEN a ELSE b

\* C17: the stderr buffer of every process holds at most STDERR_MAX
\* characters and is the last min(total, STDERR_MAX) characters of all the
\* process has written, however the stream was cut into chunks.
C17_BufferIsTailOfStream ==
  \A p \in Pids :
    /\ Chars(stderrBuf[p]) <= STDERR_MAX
    /\ Chars(stderrBuf[p]) = MinOf(Chars(stream[p]), STDERR_MAX)
    /\ stderrBuf[p] = LastOf(stream[p], Len(stderrBuf[p]))

\* C17 witness: a process has written 3000 characters in more than one
\* chunk, and its buffer holds 2000 characters, the first of them the
\* 1001st written.
C17_Witness ==
  \E p \in Pids :
    /\ Chars(stream[p]) = STDERR_MAX + BlockSize
    /\ \E i, j \in 1..Len(stream[p]) : stream[p][i].blank # stream[p][j].blank
    /\ Chars(stderrBuf[p]) = STDERR_MAX
    /\ stderrBuf[p][1].pos = 2

\* C18 (as claimed): when no process is running and the stderr of every
\* process has been read to its end, getCoreError() returns the content of
\* the buffer of the process that exited last (trimmed; null if it is
\* empty), not what an earlier process left.
C18_LastErrorIsLastExitBuffer ==
  (lastExited # NoProcess /\ alive = {} /\ reading = {}) =>
     lastError = Trim(stderrBuf[lastExited])

\* C20: attemptCount is never above MAX_ATTEMPTS, whatever calls of
\* attemptAutoFix overlap; and a call made when attemptCount is MAX_ATTEMPTS
\* and no more than COOLDOWN_MS has passed since lastAttemptAt returns
\* false in that same step: it sends nothing, spawns nothing and leaves the
\* counter and the stamp as they are.
C20_AttemptCountWithinCap ==
  [][/\ attemptCount <= MAX_ATTEMPTS /\ attemptCount' <= MAX_ATTEMPTS
     /\ \A c \in Calls :
          (/\ fixPc[c] = "idle" /\ fixPc'[c] # "idle"
           /\ attemptCount = MAX_ATTEMPTS
           /\ now - lastAttemptAt <= COOLDOWN_MS) =>
             /\ fixPc'[c] = "done" /\ fixResult'[c] = "false"
             /\ UNCHANGED <<attemptCount, lastAttemptAt, spawnLog, notes,
                            killAt>>]_vars

\* C20 witness: three calls were accepted and have spawned, two of them
\* are still in progress, and the fourth call, made inside the cooldown
\* window, has returned false.
C20_Witness ==
  /\ attemptCount = MAX_ATTEMPTS /\ Len(spawnLog) = MAX_ATTEMPTS
  /\ now - lastAttemptAt <= COOLDOWN_MS
  /\ fixPc[4] = "done" /\ fixResult[4] = "false"
  /\ Cardinality(InProgress) = 2

\* C21: a call of attemptAutoFix whose claude process has exited returns
\* true exactly when the exit code was 0 or the trimmed stdout was not
\* empty, and false only when the exit code was not 0 and the output was
\* empty.
C21_TrueIffExitZeroOrOutput ==
  [][\A c \in Calls :
       (exitCode[c] # "none" /\ fixPc'[c] = "done" /\ fixPc[c] # "done") =>
         (fixResult'[c] = "true" <=>
            (exitCode[c] = "zero" \/ hasOutput[c]))]_vars

\* C22: a trigger that arrives more than COOLDOWN_MS after lastAttemptAt
\* is accepted and counted as attempt 1, whatever attemptCount was, the
\* cap included: the counter is reset before the cap is tested.
C22_TriggerAfterCooldownIsAttemptOne ==
  [][\A c \in Calls :
       (/\ fixPc[c] = "idle" /\ fixPc'[c] # "idle"
        /\ now - lastAttemptAt > COOLDOWN_MS) =>
          /\ fixPc'[c] = "progress"
          /\ attemptCount' = 1
          /\ lastAttemptAt' = now]_vars

\* C22 witness: three calls made at the start reached the cap, and the
\* fourth, made more than COOLDOWN_MS later, is in progress as attempt 1.
C22_Witness ==
  /\ Len(spawnLog) = MAX_ATTEMPTS
  /\ \A i \in 1..MAX_ATTEMPTS : spawnLog[i] = StartTime
  /\ now - StartTime > COOLDOWN_MS
  /\ fixPc[4] = "progress"
  /\ attemptCount = 1 /\ lastAttemptAt = now

\* The texts that report how an attempt ended.
FinalNotes == {"applied", "failed", "error"}

\* C23: with a notification sink set, every accepted call of attemptAutoFix
\* has sent the progress notification when it spawns claude, and when it
\* ends it has sent, after that one, exactly one notification of the
\* outcome: applied, failed or internal error.
C23_ProgressThenOneFinal ==
  [][notifyFn =>
       \A c \in Calls :
         /\ (fixPc[c] = "progress" /\ fixPc'[c] = "stdout") =>
              notes[c] = <<"progress">>
         /\ (c \in InProgress /\ fixPc'[c] \in {"done", "rejected"}) =>
              /\ Len(notes[c]) = 2
              /\ notes[c][1] = "progress"
              /\ notes[c][2] \in FinalNotes]_vars

\* C24: with a notification sink set, a call of attemptAutoFix that is
\* refused because attemptCount is at the cap inside the cooldown window
\* sends a notification of the exhaustion, and spawns no process.
C24_RefusalIsNotified ==
  [][\A c \in Calls :
       (/\ notifyFn
        /\ fixPc[c] = "idle" /\ fixPc'[c] = "done"
        /\ Refused(CountAtTrigger(attemptCount, lastAttemptAt, now))) =>
          /\ notes'[c] # notes[c]
          /\ spawnLog' = spawnLog]_vars

\* C25: no call of attemptAutoFix rejects, whether the spawn, a read of
\* the process's streams or the notification sink fails: every call that
\* has ended has returned a boolean.
C25_AttemptAutoFixNeverRejects ==
  \A c \in Calls :
    /\ fixPc[c] # "rejected"
    /\ fixPc[c] = "done" => fixResult[c] \in {"true", "false"}

\* C26: fallbackClaude does not throw, and what it returns is never the
\* empty string: it is the trimmed stdout of the CLI exactly when the
\* process exited with code 0 and the trimmed stdout is not empty, and
\* otherwise one of the fixed fallback-mode strings; and a process that
\* the call still waits for after claudeTimeout has been killed.
C26_FallbackClaudeReturnsText ==
  \A c \in CliCalls :
    /\ cliPc[c] \in {"idle", "stdout", "exited", "stderr", "returned"}
    /\ cliPc[c] = "returned" =>
         /\ cliResult[c] # <<>>
         /\ IF cliExit[c] = "zero" /\ Trim(cliOutput[c]) # <<>>
            THEN cliResult[c] = Trim(cliOutput[c])
            ELSE cliResult[c] \in FallbackTexts
    /\ (cliPc[c] \in {"stdout", "exited"}
          /\ now - cliSpawnedAt[c] > claudeTimeout) => cliKilled[c]

\* C26 witness: the CLI wrote a blank and a letter and exited with code 0
\* after the clock had moved, and the call has returned the letter alone.
C26_Witness ==
  /\ cliPc[1] = "returned" /\ cliExit[1] = "zero"
  /\ now > cliSpawnedAt[1] /\ cliSpawnedAt[1] # 0
  /\ cliOutput[1] = <<CliChar(TRUE), CliChar(FALSE)>>
  /\ cliResult[1] = <<CliChar(FALSE)>>

\* C27: every POST /message attempt has a request timeout, so each attempt
\* ends, by a 2xx answer or by a failure (another status, a network error,
\* the timeout): no call awaits a POST that nothing will end.
C27_EveryPostAttemptEnds == \A m \in Msgs : pc[m] # "unanswered"

\* C28: a call of isCoreHealthy makes one GET, which ends within
\* HEALTH_TIMEOUT; it returns (it does not raise), true exactly when the
\* GET was answered with a 2xx status and false after any other answer, an
\* exception or the timeout; its steps change nothing of the pipeline; and
\* sendToCore starts with its POST whatever the probes returned.
C28_HealthProbeIsPureAndBounded ==
  [][/\ \A h \in Probes :
          /\ (healthPc[h] = "idle" /\ healthPc'[h] # "idle") =>
               healthPc'[h] = "get"
          /\ (healthPc[h] = "get" /\ healthPc'[h] # "get") =>
               /\ healthPc'[h] = "returned"
               /\ healthOutcome'[h] \in HealthOutcomes
               /\ healthResult'[h] = (healthOutcome'[h] = "2xx")
          /\ healthPc'[h] = "get" => now' <= healthDueAt'[h]
     /\ healthVars' # healthVars => UNCHANGED pipeVars
     /\ \A m \in Msgs :
          (pc[m] = "idle" /\ pc'[m] # "idle") =>
             pc'[m] = "post1" /\ sendPosts'[m] = 1]_vars

\* C28 witness: a probe made while the first POST of a message was
\* awaited ended by its timeout and returned false; the message was
\* answered by Core after that.
C28_Witness ==
  /\ healthPc[1] = "returned" /\ healthOutcome[1] = "timeout"
  /\ ~healthResult[1]
  /\ pc[1] = "resolved" /\ result[1] = "core" /\ sendPosts[1] = 2

\* C29: at most one interval timer of the retry loop is set at any time,
\* it is the one retryTimer holds, and whenever the queue is not empty it
\* is set, whatever sends, retry callbacks, deliveries and expiries
\* interleave.
C29_OneRetryTimerWhileQueued ==
  /\ intervals <= 1
  /\ retryTimer <=> intervals = 1
  /\ queue # <<>> => retryTimer

\* C29 witness: two entries are queued, two POSTs of retry callbacks are
\* awaited at once, and the one timer is set.
C29_Witness ==
  /\ Len(queue) = 2 /\ InFlightTotal = 2
  /\ retryTimer /\ intervals = 1
  /\ now > StartTime + RETRY_INTERVAL

\* How often, and whether, e is in seq.
Occurrences(seq, e) == Cardinality({i \in 1..Len(seq) : seq[i] = e})
Occurs(seq, e) == Occurrences(seq, e) > 0

\* C30: the handler of a message never throws; when its sendToCore call
\* rejected or relaying the response failed, it has sent, once, the fixed
\* error text to the chat; and it ends normally also when that send fails.
C30_HandlerNeverThrows ==
  \A m \in Msgs :
    /\ handlerPc[m] \in {"sendToCore", "relay", "sendError", "done"}
    /\ Occurrences(handlerLog[m], "error_text") <= 1
    /\ handlerPc[m] \in {"sendError", "done"} =>
         (Occurs(handlerLog[m], "error_text") <=>
            (pc[m] = "rejected" \/ Occurs(handlerLog[m], "relay_failed")))
    /\ Occurs(handlerLog[m], "error_failed") => handlerPc[m] = "done"

\* C30 witness: the entry of the message expired in the queue, sendToCore
\* rejected, the handler tried to send the error text, that send failed
\* too, and the handler has ended.
C30_Witness ==
  /\ pc[1] = "rejected" /\ result[1] = "timeout"
  /\ handlerPc[1] = "done"
  /\ handlerLog[1] = <<"error_text", "error_failed">>

\* C31: restart attempts never overlap: at most one restart timer is
\* pending at any time, and none is pending while coreProcess holds a
\* handle.
C31_RestartsNeverOverlap ==
  /\ Cardinality(restartTimers) <= 1
  /\ restartTimers # {} => coreProcess = NoProcess

\* The entries of q that are not older than MAX_RETRY_TIME at t, in the
\* order of q.
Young(q, t) == SelectSeq(q, LAMBDA e : t - e.enqueuedAt <= MAX_RETRY_TIME)

\* C32: a retry callback that rejects expired entries leaves in the queue
\* exactly the entries that are at most MAX_RETRY_TIME old, in their order,
\* settles none of them, and goes on to POST the first of them (a POST
\* beyond MaxInFlight is refused by Core at once).
C32_ExpiryDoesNotBlock ==
  [][(/\ retryTimer /\ nextTickAt' # nextTickAt
      /\ Expired(queue, now) # {}) =>
        /\ queue' = Young(queue, now)
        /\ \A m \in QueuedMsgs(queue') :
             pc'[m] = pc[m] /\ pc[m] \notin Settled
        /\ queue' # <<>> =>
             \/ inflight'[Head(queue').msg] = inflight[Head(queue').msg] + 1
             \/ InFlightTotal = MaxInFlight]_vars

\* C32 witness: the tick that has just run rejected message 1, queued at
\* the start, for its age; message 2, queued later, is still queued and
\* unsettled, and that tick has posted it.
C32_Witness ==
  /\ policy = "queue"
  /\ pc[1] = "rejected" /\ rejectedAge[1] = now - StartTime
  /\ nextTickAt = now + RETRY_INTERVAL
  /\ queue # <<>> /\ Head(queue).msg = 2 /\ pc[2] = "queued"
  /\ inflight[2] = 1

\* C33: at most one codex login process runs at a time, two consecutive
\* starts are at least RETRY_COOLDOWN_MS apart, and the in-progress lock
\* is held exactly while a run has not ended: it is released after every
\* run, one whose spawn failed included.
C33_OneLoginAtATime ==
  /\ loginRunning <= 1
  /\ \A i \in 2..Len(loginStarts) :
       loginStarts[i] - loginStarts[i - 1] >= RETRY_COOLDOWN_MS
  /\ loginInProgress <=> loginRunning + loginEnded = 1
  /\ loginRunning + loginEnded <= 1

\* C33 witness: a first run has ended and released the lock, the second
\* start came RETRY_COOLDOWN_MS after the first, its process is running,
\* and a trigger was skipped.
C33_Witness ==
  /\ Len(loginStarts) = 2
  /\ loginStarts[2] - loginStarts[1] = RETRY_COOLDOWN_MS
  /\ loginRunning = 1 /\ loginInProgress
  /\ loginTriggers > 2

\* C34: at most one runClaude invocation is in flight at any time, and
\* invocations start in the order of the processWithClaude calls: the
\* k-th invocation started is the one of the k-th call.
C34_OneClaudeInCallOrder ==
  /\ Cardinality(running) <= 1
  /\ \A k \in 1..Len(runOrder) : runOrder[k] = k
  /\ running # {} => processing

\* C34 witness: the first two invocations have ended, the third is in
\* flight, and two more calls wait in the queue.
C34_Witness ==
  /\ runOrder = <<1, 2, 3>> /\ running = {3}
  /\ claudeQueue = <<4, 5>>

\* The calls made so far that are neither queued, nor in flight.
ProcDone == {c \in 1..procCalls : c \notin running /\ ~Occurs(claudeQueue, c)}

\* C39: if every runClaude invocation ends, every call of processWithClaude
\* is resolved in the end, with the result or, after a throw, with the
\* fixed error text; the processing flag is set exactly while an
\* invocation is in flight, and calls wait in the queue only while it is
\* set.
C39_EveryCallResolves ==
  /\ [](/\ processing <=> running # {}
        /\ claudeQueue # <<>> => processing
        /\ \A c \in ProcCalls :
             procResult[c] \in {"result", "error_text"} <=> c \in ProcDone)
  /\ \A c \in ProcCalls :
       (c <= procCalls) ~> (procResult[c] \in {"result", "error_text"})

\* C39 witness: the invocation of the first call threw and the call was
\* resolved with the error text; the second, which waited in the queue
\* meanwhile, was started after that and resolved with its result.
C39_Witness ==
  /\ procResult[1] = "error_text" /\ procResult[2] = "result"
  /\ runOrder = <<1, 2, 3>> /\ claudeQueue = <<4>>

\* What a CLI that was run did.
Succeeded(r) == ~r.threw /\ r.exitCode = 0 /\ Trim(r.output) # <<>>
FailedWithOutput(r) == ~r.threw /\ r.exitCode # 0 /\ Trim(r.output) # <<>>
DidNotSucceed(r) == ~Succeeded(r)
ClisOf(seq) == [k \in 1..Len(seq) |-> seq[k].cli]
AvailableInOrder ==
  (IF "claude" \in agAvail THEN <<"claude">> ELSE <<>>)
    \o (IF "codex" \in agAvail THEN <<"codex">> ELSE <<>>)

\* C35: when runWithCliFallback has returned, the CLIs it ran are the
\* available ones in the order Claude, Codex, up to and including the
\* first that exited 0 with non-empty (trimmed) output; that one is the
\* result, with partial = false. When none did, all available CLIs were
\* run (one that threw included) and the result is the first that exited
\* non-zero with non-empty output, with partial = true, or null. attempted
\* lists the CLIs run, in order, and failures has one entry for each of
\* them that did not succeed, in order.
C35_FirstSuccessElseFirstPartial ==
  agPc = "returned" =>
    /\ attempted = ClisOf(agLog)
    /\ Len(attempted) <= Len(AvailableInOrder)
    /\ attempted = SubSeq(AvailableInOrder, 1, Len(attempted))
    /\ \A k \in 1..(Len(agLog) - 1) : ~Succeeded(agLog[k])
    /\ ClisOf(failures) = ClisOf(SelectSeq(agLog, DidNotSucceed))
    /\ IF agLog # <<>> /\ Succeeded(agLog[Len(agLog)])
       THEN agResult = <<[cli |-> agLog[Len(agLog)].cli,
                          output |-> Trim(agLog[Len(agLog)].output),
                          exitCode |-> 0, partial |-> FALSE]>>
       ELSE /\ attempted = AvailableInOrder
            /\ LET part == SelectSeq(agLog, FailedWithOutput)
               IN IF part = <<>>
                  THEN agResult = <<>>
                  ELSE agResult = <<[cli |-> part[1].cli,
                                     output |-> Trim(part[1].output),
                                     exitCode |-> part[1].exitCode,
                                     partial |-> TRUE]>>

\* Claude exits non-zero with output, Codex throws: Claude's output is
\* returned as a partial result and both are listed as failures.
C35_Witness ==
  /\ agPc = "returned"
  /\ Len(agLog) = 2
  /\ FailedWithOutput(agLog[1]) /\ agLog[1].output # Trim(agLog[1].output)
  /\ agLog[2].threw
  /\ agResult # <<>> /\ agResult[1].partial
  /\ Len(failures) = 2

\* C36 (as claimed): no four agent processes are spawned within one
\* interval of length COOLDOWN_MS: of any four spawns, the last is at least
\* COOLDOWN_MS after the first. (Stated for runs in which a notification
\* sink is set, so that the progress notification is a real send.)
C36_ThreeSpawnsPerWindow ==
  notifyFn =>
    \A i, j \in 1..Len(spawnLog) :
      j >= i + MAX_ATTEMPTS => spawnLog[j] - spawnLog[i] >= COOLDOWN_MS

\* The calls that were refused.
RefusedCalls == {c \in Calls : fixPc[c] = "done" /\ fixResult[c] = "false"}

\* C37: a refused call of attemptAutoFix leaves attemptCount and
\* lastAttemptAt as they are; lastAttemptAt changes only when a call is
\* accepted, and then to the time of that call; and a call made more than
\* COOLDOWN_MS after lastAttemptAt is accepted, whatever calls were refused
\* since the last accepted one.
C37_RefusalDoesNotExtendCooldown ==
  [][/\ \A c \in Calls :
          (fixPc[c] = "idle" /\ fixPc'[c] = "done") =>
            UNCHANGED <<attemptCount, lastAttemptAt>>
     /\ lastAttemptAt' # lastAttemptAt =>
          /\ lastAttemptAt' = now
          /\ \E c \in Calls : fixPc[c] = "idle" /\ fixPc'[c] = "progress"
     /\ \A c \in Calls :
          (/\ fixPc[c] = "idle" /\ fixPc'[c] # "idle"
           /\ RefusedCalls # {}
           /\ now - lastAttemptAt > COOLDOWN_MS) =>
             fixPc'[c] = "progress"]_vars

\* C37 witness: three calls were accepted at the start, the fourth was
\* refused one clock step later, and the fifth, made more than COOLDOWN_MS
\* after the start, is in progress.
C37_Witness ==
  /\ Len(spawnLog) = MAX_ATTEMPTS
  /\ \A i \in 1..MAX_ATTEMPTS : spawnLog[i] = StartTime
  /\ RefusedCalls = {4}
  /\ fixPc[5] = "progress"
  /\ lastAttemptAt = now /\ now = StartTime + 3 * AutofixStep

\* The place of message m in the order in which the callers were resolved
\* (0 if its caller was not resolved).
ResolvedAt(m) ==
  IF \E i \in 1..Len(resolveLog) : resolveLog[i] = m
  THEN CHOOSE i \in 1..Len(resolveLog) : resolveLog[i] = m
  ELSE 0

\* C38 (as claimed): a message passed to sendToCore while an earlier
\* message was waiting in the delivery queue is not delivered to Core
\* before that message: when both have been delivered, the earlier one was
\* delivered first.
C38_QueuedBeforeNewlySent ==
  \A m \in Msgs : \A k \in waitingAtSend[m] :
    (/\ delivered[m] > 0 /\ delivered[k] > 0
     /\ ResolvedAt(m) > 0 /\ ResolvedAt(k) > 0) =>
       ResolvedAt(k) < ResolvedAt(m)

\* C40: a tick that finds the queue empty, before or after the expiry
\* loop, clears the interval timer and starts no POST, and the timer is
\* cleared by no other step; while no timer is set no tick is due; a step
\* that adds an entry to the queue leaves exactly one timer running, a new
\* one with its first tick RETRY_INTERVAL later if none was set; and while
\* an entry is queued a timer is set whose next tick is due now or within
\* RETRY_INTERVAL.
C40_TimerLivesWithQueue ==
  [][/\ (retryTimer /\ nextTickAt' # nextTickAt /\ queue' = <<>>) =>
          /\ ~retryTimer' /\ intervals' = 0
          /\ inflight' = inflight
     /\ (retryTimer /\ ~retryTimer') =>
          /\ now = nextTickAt
          /\ queue' = <<>>
     /\ ~retryTimer' => (intervals' = 0 /\ nextTickAt' = 0)
     /\ Len(queue') > Len(queue) =>
          /\ retryTimer' /\ intervals' = 1
          /\ ~retryTimer => nextTickAt' = now + RETRY_INTERVAL
     /\ queue' # <<>> =>
          /\ retryTimer'
          /\ nextTickAt' >= now' /\ nextTickAt' <= now' + RETRY_INTERVAL]_vars

\* C40 witness: the first message was queued and delivered by a tick, and
\* the second was queued at least two ticks after the start and has a
\* timer whose first tick is RETRY_INTERVAL after it was queued.
C40_Witness ==
  /\ enqueued = {1, 2} /\ pc[1] = "resolved" /\ delivered[1] = 1
  /\ Len(queue) = 1 /\ queue[1].msg = 2
  /\ queue[1].enqueuedAt >= StartTime + 2 * RETRY_INTERVAL
  /\ retryTimer /\ intervals = 1
  /\ nextTickAt = queue[1].enqueuedAt + RETRY_INTERVAL
  /\ now = queue[1].enqueuedAt
====
